---- MODULE Spec2Model ----
(***************************************************************************)
(* Position lifecycle of the JimmyBSC trader: the real trader's guarded    *)
(* position store (src/app/auto_trade.rs), the simulation engine           *)
(* (src/libs/sim.rs), the ingestion loop that feeds both with price ticks  *)
(* and the manual actions of the results view (src/app/handler.rs,         *)
(* src/app/results.rs).                                                    *)
(*                                                                         *)
(* Prices are integers (hundredths of the quote unit).  A percentage such  *)
(* as pnl_pct = (current / entry - 1) * 100 is kept as an exact fraction   *)
(* [num, den] with den > 0, and compared with a threshold t by             *)
(* num >= t * den, so no rounding enters a trigger decision.               *)
(* Time is in whole seconds, as Instant::elapsed().as_secs() reports it.   *)
(***************************************************************************)
EXTENDS Integers, Sequences, FiniteSets, TLC

\* ------------------------------------------------------------------ bounds
Keys == {"k1", "k2", "k3", "k4"}     \* pair keys seen by the session
Prices == {0, 80, 100, 115, 160}     \* tick prices (hundredths); 0 is a zero quote
NoLiq == 0 - 1                       \* liquidity_usd = None
Liquidities == {NoLiq, 1, 10}        \* liquidity_usd of a tick: None, below / above the guard
MaxTime == 1                         \* the clock stops advancing here
NumTasks == 1                        \* manual actions that can be in flight at once
MaxEvents == 2                       \* events waiting in the channel to the loop
TpChoices == {10}                    \* tp_pct values of the configuration
SlChoices == {20}                    \* sl_pct values of the configuration
HoldChoices == {0, 1}                \* max_hold_secs values of the configuration
MaxPositionsChoices == {1, 2}        \* max_positions values of the configuration

\* ------------------------------------------------------- program constants
MaxHoldPnlGate == 50                 \* the literal 50.0 of the max-hold PnL gate
LiqGuard == 5                        \* update_liquidity: liq < 5.0 is out of liquidity
BuyFailLimit == 3                    \* record_buy_failure blocks at the third failure
BuyAmount == 2                       \* buy_amount_wbnb, in units of 1e-12 WBNB

\* ---------------------------------------------------------------- helpers
None == "None"

NoPct == 0 - 1                       \* tp_pct / sl_pct = None

NoTime == 0 - 1                      \* closed_at = None

NoTrigger == [kind |-> "None", arg |-> 0]

NoPlan == [some |-> FALSE]

MapPut(m, k, v) == [x \in (DOMAIN m) \cup {k} |-> IF x = k THEN v ELSE m[x]]

MapDel(m, k) == [x \in (DOMAIN m) \ {k} |-> m[x]]

EmptyMap == [x \in {} |-> None]

\* multisets, as maps from elements to positive counts
BagAdd(b, e) == IF e \in DOMAIN b THEN [b EXCEPT ![e] = @ + 1] ELSE MapPut(b, e, 1)

BagDel(b, e) == IF b[e] = 1 THEN MapDel(b, e) ELSE [b EXCEPT ![e] = @ - 1]

RECURSIVE BagCount(_, _)
BagCount(b, S) ==
    IF S = {}
    THEN 0
    ELSE LET e == CHOOSE x \in S : TRUE
         IN  b[e] + BagCount(b, S \ {e})

BagSize(b) == BagCount(b, DOMAIN b)

\* pnl_pct = ((current / entry) - 1.0) * 100.0 for entry > 0, as the fraction num / den
PnlPct(current, entry) == [num |-> (current - entry) * 100, den |-> entry]

ZeroPct == [num |-> 0, den |-> 1]

PctGe(p, t) == p.num >= t * p.den

PctLe(p, t) == p.num <= t * p.den

\* WBNB amounts of profit and loss are exact fractions in lowest terms, in
\* the unit of the position sizes
RECURSIVE GCD(_, _)
GCD(a, b) == IF b = 0 THEN a ELSE GCD(b, a % b)

Frac(n, d) ==
    LET g == GCD(IF n < 0 THEN 0 - n ELSE n, d)
    IN  [num |-> n \div g, den |-> d \div g]

ZeroWbnb == [num |-> 0, den |-> 1]

FracAdd(a, b) == Frac(a.num * b.den + b.num * a.den, a.den * b.den)

\* amount * (pnl_pct / 100.0)
PnlOn(amount, pnl_pct) == Frac(amount.num * pnl_pct.num, amount.den * 100 * pnl_pct.den)

\* detect_source: every pair is listed by one venue
detect_source(k) ==
    IF k = "k1" THEN "V2" ELSE IF k = "k2" THEN "FourMeme" ELSE "V3"

\* the token a pair trades against the base: k3 and k4 are two V3 pools (fee
\* tiers) of one token
token_out(k) ==
    IF k = "k1" THEN "t1" ELSE IF k = "k2" THEN "t2" ELSE "t3"

\* AllowanceKey { token, market }
AllowanceKey(token, market) == <<token, market>>

\* the key of the allowance job queued after a buy of pair k
allowance_key(k) == AllowanceKey(token_out(k), detect_source(k))

\* ------------------------------------------------------------ RealTrader
\* struct RealTrader { positions, closing, do_not_rebuy }
RealTraderDefault == [positions |-> EmptyMap, closing |-> {}, do_not_rebuy |-> {}]

\* struct RealPosition (pair_address is the map key)
RealPosition(k, dex, entry, at) ==
    [pair_address |-> k, dex_type |-> dex, entry_price |-> entry, opened_at |-> at]

has_position_or_blocked(t, k) ==
    \/ k \in DOMAIN t.positions
    \/ k \in t.closing
    \/ k \in t.do_not_rebuy

record_buy(t, pos) ==
    [positions |-> MapPut(t.positions, pos.pair_address, pos),
     closing |-> t.closing \ {pos.pair_address},
     do_not_rebuy |-> t.do_not_rebuy \ {pos.pair_address}]

\* a reservation that does not look at the closing set
reserve_close_unguarded(t, k) ==
    IF k \notin DOMAIN t.positions
    THEN [ret |-> FALSE, trader |-> t]
    ELSE [ret |-> TRUE, trader |-> [t EXCEPT !.closing = @ \cup {k}]]

\* returns [ret, trader]
reserve_close(t, k) ==
    IF k \in t.closing
    THEN [ret |-> FALSE, trader |-> t]
    ELSE IF k \notin DOMAIN t.positions
    THEN [ret |-> FALSE, trader |-> t]
    ELSE [ret |-> TRUE, trader |-> [t EXCEPT !.closing = @ \cup {k}]]

\* an abort that also blocks the key
abort_close_blocking(t, k) ==
    [t EXCEPT !.closing = @ \ {k}, !.do_not_rebuy = @ \cup {k}]

abort_close(t, k) == [t EXCEPT !.closing = @ \ {k}]

\* a commit that forgets to block the key
finish_sell_unblocked(t, k) ==
    [t EXCEPT !.positions = MapDel(@, k), !.closing = @ \ {k}]

\* finish_sell that leaves the reservation in place
finish_sell_keeps_closing(t, k) ==
    IF k \in DOMAIN t.positions
    THEN [positions |-> MapDel(t.positions, k),
          closing |-> t.closing,
          do_not_rebuy |-> t.do_not_rebuy \cup {t.positions[k].pair_address}]
    ELSE t

finish_sell(t, k) ==
    IF k \in DOMAIN t.positions
    THEN [positions |-> MapDel(t.positions, k),
          closing |-> t.closing \ {k},
          do_not_rebuy |-> t.do_not_rebuy \cup {t.positions[k].pair_address}]
    ELSE [t EXCEPT !.closing = @ \ {k}]

\* a removal that leaves the reservation in place
remove_position_keeps_closing(t, k) ==
    IF k \in DOMAIN t.positions
    THEN [ret |-> TRUE,
          trader |-> [positions |-> MapDel(t.positions, k),
                      closing |-> t.closing,
                      do_not_rebuy |-> t.do_not_rebuy \cup {t.positions[k].pair_address}]]
    ELSE [ret |-> FALSE, trader |-> t]

\* returns [ret, trader]
remove_position(t, k) ==
    IF k \in DOMAIN t.positions
    THEN [ret |-> TRUE,
          trader |-> [positions |-> MapDel(t.positions, k),
                      closing |-> t.closing \ {k},
                      do_not_rebuy |-> t.do_not_rebuy \cup {t.positions[k].pair_address}]]
    ELSE [ret |-> FALSE, trader |-> [t EXCEPT !.closing = @ \ {k}]]

clear_all_closing(t) == [t EXCEPT !.closing = {}]

block_rebuy(t, k) == [t EXCEPT !.do_not_rebuy = @ \cup {k}]

\* the triggers with the hold time tested first
sell_trigger_hold_first(pos, current_price, cfg, now) ==
    LET pnl_pct == PnlPct(current_price, pos.entry_price)
        elapsed == now - pos.opened_at
    IN  IF /\ cfg.max_hold_secs > 0
           /\ elapsed >= cfg.max_hold_secs
           /\ (~cfg.max_hold_pnl \/ PctLe(pnl_pct, MaxHoldPnlGate))
        THEN [kind |-> "MaxHold", arg |-> cfg.max_hold_secs]
        ELSE IF cfg.tp_enabled /\ PctGe(pnl_pct, cfg.tp_pct)
        THEN [kind |-> "TakeProfit", arg |-> cfg.tp_pct]
        ELSE IF cfg.sl_enabled /\ PctLe(pnl_pct, 0 - cfg.sl_pct)
        THEN [kind |-> "StopLoss", arg |-> cfg.sl_pct]
        ELSE NoTrigger

\* the triggers without the PnL gate on the hold time
sell_trigger_ungated(pos, current_price, cfg, now) ==
    LET pnl_pct == PnlPct(current_price, pos.entry_price)
        elapsed == now - pos.opened_at
    IN  IF cfg.tp_enabled /\ PctGe(pnl_pct, cfg.tp_pct)
        THEN [kind |-> "TakeProfit", arg |-> cfg.tp_pct]
        ELSE IF cfg.sl_enabled /\ PctLe(pnl_pct, 0 - cfg.sl_pct)
        THEN [kind |-> "StopLoss", arg |-> cfg.sl_pct]
        ELSE IF cfg.max_hold_secs > 0 /\ elapsed >= cfg.max_hold_secs
        THEN [kind |-> "MaxHold", arg |-> cfg.max_hold_secs]
        ELSE NoTrigger

\* The trigger of sell_decision for a position at a price: TakeProfit, then
\* StopLoss, then MaxHold, else NoTrigger.  cfg is the ConfigStore, now the clock.
sell_trigger(pos, current_price, cfg, now) ==
    LET pnl_pct == PnlPct(current_price, pos.entry_price)
        tp_pct == IF cfg.tp_enabled THEN cfg.tp_pct ELSE NoPct
        sl_pct == IF cfg.sl_enabled THEN cfg.sl_pct ELSE NoPct
        elapsed == now - pos.opened_at
    IN  IF tp_pct # NoPct /\ PctGe(pnl_pct, tp_pct)
        THEN [kind |-> "TakeProfit", arg |-> tp_pct]
        ELSE IF sl_pct # NoPct /\ PctLe(pnl_pct, 0 - sl_pct)
        THEN [kind |-> "StopLoss", arg |-> sl_pct]
        ELSE IF /\ cfg.max_hold_secs > 0
                /\ elapsed >= cfg.max_hold_secs
                /\ (~cfg.max_hold_pnl \/ PctLe(pnl_pct, MaxHoldPnlGate))
        THEN [kind |-> "MaxHold", arg |-> cfg.max_hold_secs]
        ELSE NoTrigger

\* a decision that neither looks at the closing set nor reserves
sell_decision_unreserved(t, k, current_price, cfg, now) ==
    IF k \notin DOMAIN t.positions
    THEN [plan |-> NoPlan, trader |-> t]
    ELSE LET pos == t.positions[k]
             tr == sell_trigger(pos, current_price, cfg, now)
         IN  IF pos.entry_price <= 0 \/ tr = NoTrigger
             THEN [plan |-> NoPlan, trader |-> t]
             ELSE [plan |-> [some |-> TRUE,
                             pair_key |-> k,
                             dex_type |-> pos.dex_type,
                             trigger |-> tr,
                             percent_points |-> 100],
                   trader |-> t]

\* returns [plan, trader]; plan is NoPlan or a SellPlan (without the fields
\* that are only logged: base_symbol, spent_bnb, pnl_pct)
sell_decision(t, k, current_price, cfg, now) ==
    IF k \in t.closing
    THEN [plan |-> NoPlan, trader |-> t]
    ELSE IF k \notin DOMAIN t.positions
    THEN [plan |-> NoPlan, trader |-> t]
    ELSE IF t.positions[k].entry_price <= 0
    THEN [plan |-> NoPlan, trader |-> t]
    ELSE LET pos == t.positions[k]
             tr == sell_trigger(pos, current_price, cfg, now)
         IN  IF tr = NoTrigger
             THEN [plan |-> NoPlan, trader |-> t]
             ELSE [plan |-> [some |-> TRUE,
                             pair_key |-> k,
                             dex_type |-> pos.dex_type,
                             trigger |-> tr,
                             percent_points |-> 100],
                   trader |-> [t EXCEPT !.closing = @ \cup {k}]]

\* ----------------------------------------------------------- SimPosition
\* SimPosition::new.  Amounts are in units of 1e-12 WBNB; liquidity_usd and
\* the token symbols are display data and are not kept.
SimPosition(k, dex, entry, amount, tp, sl, now) ==
    [pair_address |-> k,
     dex_type |-> dex,
     entry_price |-> entry,
     current_price |-> entry,
     buy_amount_wbnb |-> amount,
     remaining_amount_wbnb |-> amount,
     opened_at |-> now,
     closed_at |-> NoTime,
     status |-> "Open",
     out_of_liq |-> FALSE,
     needs_liq_ack |-> FALSE,
     tp_pct |-> tp,
     sl_pct |-> sl,
     pnl_pct |-> ZeroPct,
     pnl_wbnb |-> ZeroWbnb,
     realized_pnl_wbnb |-> ZeroWbnb,
     frozen |-> FALSE]

\* an alert that fires on every tick below the guard
update_liquidity_rearming(pos, liquidity) ==
    IF liquidity = NoLiq
    THEN pos
    ELSE IF liquidity < LiqGuard
    THEN [pos EXCEPT !.needs_liq_ack = TRUE, !.out_of_liq = TRUE]
    ELSE IF pos.out_of_liq /\ pos.needs_liq_ack
    THEN pos
    ELSE [pos EXCEPT !.out_of_liq = FALSE, !.needs_liq_ack = FALSE]

update_liquidity(pos, liquidity) ==
    IF liquidity = NoLiq
    THEN pos
    ELSE IF liquidity < LiqGuard
    THEN [pos EXCEPT !.needs_liq_ack = IF ~pos.out_of_liq THEN TRUE ELSE @,
                     !.out_of_liq = TRUE]
    ELSE IF pos.out_of_liq /\ pos.needs_liq_ack
    THEN pos
    ELSE [pos EXCEPT !.out_of_liq = FALSE, !.needs_liq_ack = FALSE]

close(pos, status, now) == [pos EXCEPT !.status = status, !.closed_at = now]

is_open(pos) == pos.status = "Open"

duration_secs(pos, now) ==
    (IF pos.closed_at = NoTime THEN now ELSE pos.closed_at) - pos.opened_at

\* returns [closed, pos]
update_price(pos, new_price, now) ==
    LET p1 == [pos EXCEPT !.current_price = new_price]
    IN  IF pos.entry_price <= 0
        THEN [closed |-> FALSE, pos |-> p1]
        ELSE LET pct == PnlPct(new_price, pos.entry_price)
                 p2 == [p1 EXCEPT !.pnl_pct = pct,
                                  !.pnl_wbnb = PnlOn(Frac(pos.remaining_amount_wbnb, 1), pct)]
             IN  IF p2.frozen
                 THEN [closed |-> FALSE, pos |-> p2]
                 ELSE IF p2.remaining_amount_wbnb > 0
                      /\ p2.tp_pct # NoPct /\ PctGe(p2.pnl_pct, p2.tp_pct)
                 THEN [closed |-> TRUE, pos |-> close(p2, "ClosedTP", now)]
                 ELSE IF p2.remaining_amount_wbnb > 0
                      /\ p2.sl_pct # NoPct /\ PctLe(p2.pnl_pct, 0 - p2.sl_pct)
                 THEN [closed |-> TRUE, pos |-> close(p2, "ClosedSL", now)]
                 ELSE [closed |-> FALSE, pos |-> p2]

\* a partial sell that realizes the profit of the whole remaining size
partial_sell_fraction_whole(pos, pct) ==
    IF ~(pct > 0 /\ pct <= 100) \/ pos.remaining_amount_wbnb <= 0
    THEN [realized |-> ZeroWbnb, pos |-> pos]
    ELSE LET realized == PnlOn(Frac(pos.remaining_amount_wbnb, 1), pos.pnl_pct)
             left == pos.remaining_amount_wbnb * (100 - pct)
             remaining == IF left < 100 THEN 0 ELSE left \div 100
         IN  [realized |-> realized,
              pos |-> [pos EXCEPT
                         !.remaining_amount_wbnb = remaining,
                         !.realized_pnl_wbnb = FracAdd(@, realized),
                         !.pnl_wbnb = PnlOn(Frac(remaining, 1), pos.pnl_pct)]]

\* partial_sell_fraction with the fraction in percent; a remainder below
\* 1e-12 (one unit) is set to 0.  Returns [realized, pos].
partial_sell_fraction(pos, pct) ==
    IF ~(pct > 0 /\ pct <= 100) \/ pos.remaining_amount_wbnb <= 0
    THEN [realized |-> ZeroWbnb, pos |-> pos]
    ELSE LET sell_amount == Frac(pos.remaining_amount_wbnb * pct, 100)
             realized == PnlOn(sell_amount, pos.pnl_pct)
             left == pos.remaining_amount_wbnb * (100 - pct)
             remaining == IF left < 100 THEN 0 ELSE left \div 100
         IN  [realized |-> realized,
              pos |-> [pos EXCEPT
                         !.remaining_amount_wbnb = remaining,
                         !.realized_pnl_wbnb = FracAdd(@, realized),
                         !.pnl_wbnb = PnlOn(Frac(remaining, 1), pos.pnl_pct)]]

\* ------------------------------------------------------------- SimEngine
\* SimEngine::new
SimEngineNew(max_positions) ==
    [positions |-> EmptyMap,
     closed_positions |-> << >>,
     max_positions |-> max_positions,
     pending_buys |-> EmptyMap,
     do_not_rebuy |-> {},
     max_hold_secs |-> 0,
     max_hold_pnl_enabled |-> TRUE]

set_max_hold_secs(se, secs) == [se EXCEPT !.max_hold_secs = secs]

set_max_hold_pnl_enabled(se, enabled) == [se EXCEPT !.max_hold_pnl_enabled = enabled]

\* pos.pnl_wbnb = pos.realized_pnl_wbnb + pos.pnl_wbnb, on a manual full take
realize(pos) == [pos EXCEPT !.pnl_wbnb = FracAdd(pos.realized_pnl_wbnb, pos.pnl_wbnb)]

\* returns [some, se]: some says whether a position was taken
take_position(se, k, now) ==
    IF k \in DOMAIN se.positions
    THEN [some |-> TRUE,
          se |-> [se EXCEPT
                    !.positions = MapDel(@, k),
                    !.do_not_rebuy = @ \cup {se.positions[k].pair_address},
                    !.closed_positions =
                        Append(@, close(realize(se.positions[k]), "ClosedManual", now))]]
    ELSE [some |-> FALSE, se |-> se]

\* a partial take that finalizes the position once nothing remains
partial_take_closing(se, k, pct) ==
    IF k \in DOMAIN se.positions
    THEN IF se.positions[k].frozen
         THEN [some |-> FALSE, realized |-> ZeroWbnb, se |-> se]
         ELSE LET r == partial_sell_fraction(se.positions[k], pct)
              IN  [some |-> TRUE, realized |-> r.realized,
                   se |-> IF r.pos.remaining_amount_wbnb = 0
                          THEN [se EXCEPT
                                  !.positions = MapDel(@, k),
                                  !.do_not_rebuy = @ \cup {k},
                                  !.closed_positions = Append(@, r.pos)]
                          ELSE [se EXCEPT !.positions[k] = r.pos]]
    ELSE [some |-> FALSE, realized |-> ZeroWbnb, se |-> se]

\* returns [some, realized, se]
partial_take(se, k, pct) ==
    IF k \in DOMAIN se.positions
    THEN IF se.positions[k].frozen
         THEN [some |-> FALSE, realized |-> ZeroWbnb, se |-> se]
         ELSE LET r == partial_sell_fraction(se.positions[k], pct)
              IN  [some |-> TRUE, realized |-> r.realized,
                   se |-> [se EXCEPT !.positions[k] = r.pos]]
    ELSE [some |-> FALSE, realized |-> ZeroWbnb, se |-> se]

\* SimEngine::remove_position; returns [ret, se]
sim_remove_position(se, k) ==
    LET removed == k \in DOMAIN se.positions \/ k \in DOMAIN se.pending_buys
    IN  [ret |-> removed,
         se |-> [se EXCEPT
                   !.positions = MapDel(@, k),
                   !.pending_buys = MapDel(@, k),
                   !.do_not_rebuy = IF removed THEN @ \cup {k} ELSE @]]

\* the positions of a set of keys, as a sequence in some order
RECURSIVE SeqOfKeys(_, _, _)
SeqOfKeys(m, ks, now) ==
    IF ks = {}
    THEN << >>
    ELSE LET k == CHOOSE x \in ks : TRUE
         IN  <<close(realize(m[k]), "ClosedManual", now)>> \o SeqOfKeys(m, ks \ {k}, now)

\* take_all: closes every position that is not frozen
take_all(se, now) ==
    LET keys == {k \in DOMAIN se.positions : ~se.positions[k].frozen}
    IN  [se EXCEPT
           !.positions = [k \in (DOMAIN @) \ keys |-> @[k]],
           !.do_not_rebuy = @ \cup keys,
           !.closed_positions = @ \o SeqOfKeys(se.positions, keys, now)]

\* returns [ret, se]
submit_buy(se, k, dex, amount, tp, sl) ==
    IF k \in DOMAIN se.positions \/ k \in DOMAIN se.pending_buys
    THEN [ret |-> FALSE, se |-> se]
    ELSE IF k \in se.do_not_rebuy
    THEN [ret |-> FALSE, se |-> se]
    ELSE IF Cardinality(DOMAIN se.positions) + Cardinality(DOMAIN se.pending_buys)
              >= se.max_positions
    THEN [ret |-> FALSE, se |-> se]
    ELSE [ret |-> TRUE,
          se |-> [se EXCEPT !.pending_buys =
                      MapPut(@, k, [dex_type |-> dex, buy_amount |-> amount,
                                    tp_pct |-> tp, sl_pct |-> sl])]]

\* an auto-take that waits until the hold time is exceeded
max_hold_take_strict(se, k, allow_close, now) ==
    IF /\ se.max_hold_secs > 0
       /\ allow_close
       /\ k \in DOMAIN se.positions
       /\ ~se.positions[k].frozen
       /\ duration_secs(se.positions[k], now) > se.max_hold_secs
       /\ se.positions[k].remaining_amount_wbnb > 0
       /\ (~se.max_hold_pnl_enabled \/ PctLe(se.positions[k].pnl_pct, MaxHoldPnlGate))
    THEN [msg |-> "MAX HOLD TAKE",
          se |-> [se EXCEPT
                    !.positions = MapDel(@, k),
                    !.do_not_rebuy = @ \cup {k},
                    !.closed_positions =
                        Append(@, close(se.positions[k], "ClosedManual", now))]]
    ELSE [msg |-> None, se |-> se]

\* the time-based auto-take at the end of update_or_execute
max_hold_take(se, k, allow_close, now) ==
    IF /\ se.max_hold_secs > 0
       /\ allow_close
       /\ k \in DOMAIN se.positions
       /\ ~se.positions[k].frozen
       /\ duration_secs(se.positions[k], now) >= se.max_hold_secs
       /\ se.positions[k].remaining_amount_wbnb > 0
       /\ (~se.max_hold_pnl_enabled \/ PctLe(se.positions[k].pnl_pct, MaxHoldPnlGate))
    THEN [msg |-> "MAX HOLD TAKE",
          se |-> [se EXCEPT
                    !.positions = MapDel(@, k),
                    !.do_not_rebuy = @ \cup {k},
                    !.closed_positions =
                        Append(@, close(se.positions[k], "ClosedManual", now))]]
    ELSE [msg |-> None, se |-> se]

\* update_or_execute that opens the position but leaves the pending buy queued
update_or_execute_keeps_pending(se, k, new_price, liquidity, allow_close, now) ==
    IF k \in DOMAIN se.pending_buys
    THEN LET b == se.pending_buys[k]
             position == update_liquidity(
                 SimPosition(k, b.dex_type, new_price, b.buy_amount,
                             b.tp_pct, b.sl_pct, now), liquidity)
         IN  [msg |-> "EXECUTED",
              se |-> [se EXCEPT !.positions = MapPut(@, k, position)]]
    ELSE [msg |-> None, se |-> se]

\* returns [msg, se]
update_or_execute(se, k, new_price, liquidity, allow_close, now) ==
    IF k \in DOMAIN se.pending_buys
    THEN LET b == se.pending_buys[k]
             position == update_liquidity(
                 SimPosition(k, b.dex_type, new_price, b.buy_amount,
                             b.tp_pct, b.sl_pct, now), liquidity)
         IN  [msg |-> "EXECUTED",
              se |-> [se EXCEPT !.pending_buys = MapDel(@, k),
                                !.positions = MapPut(@, k, position)]]
    ELSE LET se1 ==
                 IF k \in DOMAIN se.positions
                 THEN LET r == update_price(
                                   update_liquidity(se.positions[k], liquidity),
                                   new_price, now)
                      IN  IF r.closed /\ allow_close
                          THEN [se EXCEPT
                                  !.positions = MapDel(@, k),
                                  !.do_not_rebuy = @ \cup {k},
                                  !.closed_positions = Append(@, r.pos)]
                          ELSE [se EXCEPT !.positions[k] = r.pos]
                 ELSE se
         IN  max_hold_take(se1, k, allow_close, now)

has_position_or_pending(se, k) ==
    \/ k \in DOMAIN se.positions
    \/ k \in DOMAIN se.pending_buys
    \/ k \in se.do_not_rebuy

reset(se) ==
    [se EXCEPT !.positions = EmptyMap,
               !.closed_positions = << >>,
               !.pending_buys = EmptyMap]

update_max_positions(se, new_max) == [se EXCEPT !.max_positions = new_max]

\* returns [some, se]
toggle_freeze(se, k) ==
    IF k \in DOMAIN se.positions
    THEN [some |-> TRUE, se |-> [se EXCEPT !.positions[k].frozen = ~@]]
    ELSE [some |-> FALSE, se |-> se]

position_needs_liq_ack(se, k) ==
    k \in DOMAIN se.positions /\ se.positions[k].needs_liq_ack

ack_all_liq_alerts(se) ==
    [se EXCEPT !.positions =
        [k \in DOMAIN @ |-> [@[k] EXCEPT !.needs_liq_ack = FALSE]]]

has_pending_liq_alert(se) ==
    \E k \in DOMAIN se.positions : se.positions[k].needs_liq_ack

\* a mirror that overwrites the position the engine already holds
add_real_position_overwriting(se, k, dex, entry, amount, tp, sl, liquidity, now) ==
    [se EXCEPT !.positions =
        MapPut(@, k, update_liquidity(
            SimPosition(k, dex, entry, amount, tp, sl, now), liquidity))]

add_real_position(se, k, dex, entry, amount, tp, sl, liquidity, now) ==
    IF k \in DOMAIN se.positions
    THEN se
    ELSE [se EXCEPT !.positions =
              MapPut(@, k, update_liquidity(
                  SimPosition(k, dex, entry, amount, tp, sl, now), liquidity))]

\* ------------------------------------------------------------------ state
VARIABLES
    trader,         \* REAL_TRADER: the real trader's store, behind its mutex
    se,             \* the SimEngine, behind its mutex
    buy_fails,      \* BUY_FAILS: consecutive failed buys per pair key
    config_store,   \* the ConfigStore
    sim_mode_flag,  \* the shared simulation toggle
    now,            \* the clock, in seconds
    loop,           \* the ingestion loop: where it is in the current event
    tasks,          \* the manual-action tasks in flight (a multiset)
    ui,             \* the UI task: "idle", or "reset" while it waits to reset the engine
    allowance,      \* the allowance worker: enqueue tasks, channel, approved set, job
    locks,          \* who holds, and who waits for, the two mutexes
    events          \* the channel from the pair streams to the ingestion loop

vars == <<trader, se, buy_fails, config_store, sim_mode_flag, now, loop, tasks, ui,
          allowance, locks, events>>

DefaultMinPnlPct == 100              \* min_pnl_pct: unwrap_or(100.0)

DefaultFreshnessSecs == 30           \* freshness_secs: unwrap_or(30)

\* pair_metrics(pair_key): None, or the pair's tracked PnL in percent and the
\* time since it was first seen, in milliseconds
NoMetrics == [some |-> FALSE]

MetricInputs ==
    {NoMetrics, [some |-> TRUE, pnl_pct |-> 120, age_ms |-> 45000]}
        \cup [some : {TRUE}, pnl_pct : {60}, age_ms : {10000, 30500, 45000}]

\* the gate on the configured values, as auto_trade and auto_trade_real apply
\* it: TRUE when the buy may go on
momentum_gate(cfg, m) ==
    ~(m.some /\ m.pnl_pct < cfg.min_pnl_pct
             /\ m.age_ms \div 1000 > cfg.freshness_secs)

\* the second guard of auto_trade_real, on fixed values
fixed_momentum_guard(m) ==
    ~(m.some /\ m.pnl_pct < 100 /\ m.age_ms > 30000)

ConfigStores ==
    [enabled : {TRUE},
     tp_enabled : BOOLEAN, tp_pct : TpChoices,
     sl_enabled : BOOLEAN, sl_pct : SlChoices,
     max_hold_secs : HoldChoices, max_hold_pnl : BOOLEAN,
     max_positions : MaxPositionsChoices,
     min_pnl_pct : {DefaultMinPnlPct}, freshness_secs : {DefaultFreshnessSecs}]

\* tp_pct / sl_pct as auto_trade and auto_trade_real read them
cfg_tp(cfg) == IF cfg.tp_enabled THEN cfg.tp_pct ELSE NoPct

cfg_sl(cfg) == IF cfg.sl_enabled THEN cfg.sl_pct ELSE NoPct

\* ------------------------------------------------------- AllowanceWorker
AllowanceAttempts == 3               \* make_allowance_job: attempts of a queued job

AllowanceQueueCap == 64              \* mpsc::channel::<AllowanceJob>(64)

NoJob == [some |-> FALSE]

\* AllowanceWorker::new: an empty channel, the consumer's empty approved set;
\* sending holds the spawned enqueue tasks that have not sent their job yet
AllowanceWorkerNew ==
    [sending |-> EmptyMap, queue |-> <<>>, approved |-> {}, job |-> NoJob]

\* queue_allowance_job: the job is built and a task is spawned to enqueue it
queue_allowance_job(a, key) == [a EXCEPT !.sending = BagAdd(@, key)]

\* a consumer that runs every job it receives
worker_recv_rerun(a) ==
    [a EXCEPT !.queue = Tail(@),
              !.job = [some |-> TRUE, key |-> Head(a.queue), attempt |-> 0]]

\* the consumer takes the next job: dropped if its key is approved already,
\* else its future starts to run
worker_recv(a) ==
    IF Head(a.queue) \in a.approved
    THEN [a EXCEPT !.queue = Tail(@)]
    ELSE [a EXCEPT !.queue = Tail(@),
                   !.job = [some |-> TRUE, key |-> Head(a.queue), attempt |-> 0]]

\* a retry loop that gives up at the first failure
send_allowance_with_retry_once(a, ok) ==
    IF ok
    THEN [a EXCEPT !.approved = @ \cup {a.job.key}, !.job = NoJob]
    ELSE [a EXCEPT !.job = NoJob]

\* one turn of send_allowance_with_retry inside the running job: send_allowance
\* returns Ok (the job ends, the consumer inserts the key) or Err (the loop
\* sleeps and tries again, or ends with the last error after the last attempt)
send_allowance_with_retry(a, ok) ==
    IF ok
    THEN [a EXCEPT !.approved = @ \cup {a.job.key}, !.job = NoJob]
    ELSE IF a.job.attempt + 1 >= AllowanceAttempts
    THEN [a EXCEPT !.job = NoJob]
    ELSE [a EXCEPT !.job.attempt = @ + 1]

LoopIdle ==
    [pc |-> "recv", key |-> "k1", price |-> 0, liquidity |-> NoLiq,
     plan |-> NoPlan, res |-> "none"]

NewTask(kind, pc, k, pct) ==
    [pc |-> pc, kind |-> kind, key |-> k, pct |-> pct, queue |-> {}]

\* the engine as run() builds it from the configuration
SimEngineOf(cfg) ==
    set_max_hold_pnl_enabled(
        set_max_hold_secs(SimEngineNew(cfg.max_positions), cfg.max_hold_secs),
        cfg.max_hold_pnl)

\* ------------------------------------------------------ the two mutexes
\* REAL_TRADER and the engine's Arc<Mutex<SimEngine>> are tokio mutexes: a
\* task that awaits lock() is suspended until the guard is dropped, and the
\* mutex is not reentrant. A task's passage through the locks is a sequence
\* of acquisitions and releases.
Acq(l) == <<"acq", l>>

Rel(l) == <<"rel", l>>

\* { let g = l.lock().await; ... }
Locked(l) == <<Acq(l), Rel(l)>>

\* the ingestion loop, the UI task and the spawned manual-action tasks
LockProcs == {<<"loop", 0>>, <<"ui", 0>>} \cup {<<"task", i>> : i \in 1..NumTasks}

\* update_or_execute on every event, the guard dropped before the dispatch
update_locks == Locked("se")

\* simulation mode: the engine's guard is held across auto_trade
sim_event_locks == update_locks \o Locked("se")

\* a mirror that records the buy before it lets go of the engine
buy_mirror_locks_nested(dex) ==
    <<Acq("se"), Acq("trader"), Rel("trader"), Rel("se")>>

\* the mirror of a successful buy on a venue, then record_buy
buy_mirror_locks(dex) == Locked("se") \o Locked("trader")

\* auto_trade_real: the sell decision, then either the commit or abort and
\* the mirror close, or the admission and what follows the buy
auto_trade_real_locks ==
    {Locked("trader"),
     Locked("trader") \o Locked("trader") \o Locked("se"),
     Locked("trader") \o Locked("trader"),
     Locked("trader") \o Locked("trader") \o Locked("trader")}
    \cup {Locked("trader") \o Locked("trader") \o buy_mirror_locks(dex) :
             dex \in {"V2", "V3", "FourMeme"}}

\* real mode: update_or_execute, then auto_trade_real (which may return
\* before it locks anything)
real_event_locks == {update_locks} \cup {update_locks \o p : p \in auto_trade_real_locks}

\* manual_sell: the plan is built under the trader's guard with the engine
\* locked inside it; a full close then commits or aborts; the mirror follows
\* a successful sell
manual_sell_locks(pct) ==
    LET plan == <<Acq("trader"), Acq("se"), Rel("se"), Rel("trader")>>
        settle == IF pct >= 100 THEN Locked("trader") ELSE << >>
    IN  {Locked("trader"),
         plan \o settle,
         plan \o settle \o Locked("se")}

\* manual_sell_all: clear_all_closing, then manual_sell for each key held
manual_sell_all_locks ==
    {Locked("trader")}
    \cup {Locked("trader") \o p : p \in manual_sell_locks(100)}
    \cup {Locked("trader") \o p \o q : p, q \in manual_sell_locks(100)}

manual_remove_position_locks == Locked("trader") \o Locked("se")

\* results_interactions_real: the pending-alert test, then the button hit
results_interactions_real_locks ==
    LET pending == Locked("se")
        needs_ack == Locked("se")
    IN  {pending, pending \o needs_ack}
        \cup {pending \o p : p \in manual_sell_all_locks}
        \cup {pending \o needs_ack \o p : p \in manual_sell_locks(50)}
        \cup {pending \o manual_remove_position_locks}
        \cup {pending \o needs_ack \o p : p \in manual_sell_locks(100)}
        \cup {pending \o needs_ack \o Locked("se")}

\* the UI task locks the engine only: settings, clicks, the reset, the draw
ui_locks == {Locked("se")}

LocksIdle == [p \in LockProcs |-> [prog |-> << >>, held |-> << >>]]

InitWith(cfgs, modes) ==
    /\ config_store \in cfgs
    /\ sim_mode_flag \in modes
    /\ trader = RealTraderDefault
    /\ se = SimEngineOf(config_store)
    /\ buy_fails = [k \in Keys |-> 0]
    /\ now = 0
    /\ loop = LoopIdle
    /\ tasks = EmptyMap
    /\ ui = "idle"
    /\ allowance = AllowanceWorkerNew
    /\ locks = LocksIdle
    /\ events = <<>>


\* ------------------------------------------------------------------ clock
Tick ==
    /\ now < MaxTime
    /\ now' = now + 1
    /\ UNCHANGED <<locks, trader, se, buy_fails, config_store, sim_mode_flag, loop, tasks, ui, allowance, events>>

\* -------------------------------------------------- the ingestion loop
\* rx_bg.recv() and step 2, for an event that arrives while the channel is
\* empty and the loop waits: the engine is updated with the tick's price;
\* auto-closes are allowed only when the simulation toggle is on
LoopRecv(keys, prices, liqs) ==
    /\ loop.pc = "recv"
    /\ \E k \in keys, p \in prices, liq \in liqs :
          /\ se' = update_or_execute(se, k, p, liq, sim_mode_flag, now).se
          /\ loop' = [LoopIdle EXCEPT !.pc = "dispatch", !.key = k,
                                      !.price = p, !.liquidity = liq]
    /\ UNCHANGED <<locks, trader, buy_fails, config_store, sim_mode_flag, now, tasks, ui, allowance, events>>

\* a pair stream sends an event into the channel to the ingestion loop
Arrive(keys, prices, liqs) ==
    /\ Len(events) < MaxEvents
    /\ \E k \in keys, p \in prices, liq \in liqs :
          events' = Append(events, [key |-> k, price |-> p, liquidity |-> liq])
    /\ UNCHANGED <<locks, trader, se, buy_fails, config_store, sim_mode_flag, now, loop,
                   tasks, ui, allowance>>

\* a consumer that takes the next event whatever it is doing
LoopRecvQueued_eager ==
    /\ events # <<>>
    /\ LET e == Head(events)
       IN  /\ se' = update_or_execute(se, e.key, e.price, e.liquidity,
                                      sim_mode_flag, now).se
           /\ loop' = [LoopIdle EXCEPT !.pc = "dispatch", !.key = e.key,
                                       !.price = e.price, !.liquidity = e.liquidity]
    /\ events' = Tail(events)
    /\ UNCHANGED <<locks, trader, buy_fails, config_store, sim_mode_flag, now, tasks, ui,
                   allowance>>

\* rx_bg.recv() on the channel: the loop, back at the head of its while, takes
\* the oldest event and updates the engine with its price
LoopRecvQueued ==
    /\ loop.pc = "recv"
    /\ events # <<>>
    /\ LET e == Head(events)
       IN  /\ se' = update_or_execute(se, e.key, e.price, e.liquidity,
                                      sim_mode_flag, now).se
           /\ loop' = [LoopIdle EXCEPT !.pc = "dispatch", !.key = e.key,
                                       !.price = e.price, !.liquidity = e.liquidity]
    /\ events' = Tail(events)
    /\ UNCHANGED <<locks, trader, buy_fails, config_store, sim_mode_flag, now, tasks, ui,
                   allowance>>

\* step 3 with the toggle on: auto_trade submits a simulated buy if the pair
\* passes the admission filters
LoopAutoTradeWith(filters_pass, m) ==
    /\ loop.pc = "dispatch"
    /\ sim_mode_flag
    /\ se' = IF /\ ~has_position_or_pending(se, loop.key)
                /\ config_store.enabled
                /\ loop.price > 0
                /\ filters_pass
                /\ momentum_gate(config_store, m)
             THEN submit_buy(se, loop.key, detect_source(loop.key), BuyAmount,
                             cfg_tp(config_store), cfg_sl(config_store)).se
             ELSE se
    /\ loop' = LoopIdle
    /\ UNCHANGED <<locks, trader, buy_fails, config_store, sim_mode_flag, now, tasks, ui, allowance, events>>

LoopAutoTrade ==
    \E filters_pass \in BOOLEAN, m \in MetricInputs : LoopAutoTradeWith(filters_pass, m)

\* step 3 with the toggle off: auto_trade_real first consults sell_decision
\* under the trader lock
LoopSellDecision ==
    /\ loop.pc = "dispatch"
    /\ ~sim_mode_flag
    /\ IF loop.price <= 0
       THEN /\ loop' = LoopIdle
            /\ UNCHANGED trader
       ELSE LET d == sell_decision(trader, loop.key, loop.price, config_store, now)
            IN  /\ trader' = d.trader
                /\ loop' = IF d.plan.some
                           THEN [loop EXCEPT !.pc = "sell_exec", !.plan = d.plan]
                           ELSE [loop EXCEPT !.pc = "admit"]
    /\ UNCHANGED <<locks, se, buy_fails, config_store, sim_mode_flag, now, tasks, ui, allowance, events>>

\* the outcomes of execute_sell_plan on a venue: Ok after a confirmed sale,
\* Ok with nothing sent (token balance or computed amount zero), or an error
SellOutcomes(dex) ==
    {"sold", "zero_balance", "zero_amount", "err_allowance", "err_swap", "err_no_drop"}
        \cup (IF dex = "FourMeme" THEN {"err_timeout"} ELSE {})

SellOk(res) == res \in {"sold", "zero_balance", "zero_amount"}

\* the match on the result of execute_sell_plan, under the trader lock
commit_or_abort(t, k, res) ==
    IF SellOk(res) THEN finish_sell(t, k) ELSE abort_close(t, k)

\* execute_sell_plan returns (it ran outside every lock), and the close is
\* committed or aborted under the trader lock
LoopSellCommit ==
    /\ loop.pc = "sell_exec"
    /\ \E res \in SellOutcomes(loop.plan.dex_type) :
          /\ loop.res = "allowance" => res \notin {"zero_balance", "zero_amount"}
          /\ trader' = commit_or_abort(trader, loop.key, res)
          /\ loop' = [loop EXCEPT !.pc = "sell_mirror", !.res = res]
    /\ UNCHANGED <<locks, se, buy_fails, config_store, sim_mode_flag, now, tasks, ui, allowance, events>>

\* the mirror close that follows, whatever the result of the sell
LoopSellMirror ==
    /\ loop.pc = "sell_mirror"
    /\ se' = take_position(se, loop.key, now).se
    /\ loop' = LoopIdle
    /\ UNCHANGED <<locks, trader, buy_fails, config_store, sim_mode_flag, now, tasks, ui, allowance, events>>

\* record_buy_failure: returns [cnt, trader, buy_fails]
record_buy_failure(t, bf, k) ==
    LET cnt == bf[k] + 1
    IN  [cnt |-> cnt,
         trader |-> IF cnt >= BuyFailLimit THEN block_rebuy(t, k) ELSE t,
         buy_fails |-> [bf EXCEPT ![k] = cnt]]

clear_buy_failures(bf, k) == [bf EXCEPT ![k] = 0]

\* an admission that only looks for an existing position
admits_ignoring_marks(t, k, cfg) ==
    /\ k \notin DOMAIN t.positions
    /\ Cardinality(DOMAIN t.positions) < cfg.max_positions

\* the locked admission gate of auto_trade_real
admits(t, k, cfg) ==
    /\ ~has_position_or_blocked(t, k)
    /\ Cardinality(DOMAIN t.positions) < cfg.max_positions

\* no plan: the buy admission of auto_trade_real.  The filters on names,
\* quotes, liquidity, buy counts, venue enablement and momentum are inputs.
LoopAdmitWith(filters_pass, m) ==
    /\ loop.pc = "admit"
    /\ loop' = IF /\ config_store.enabled /\ filters_pass
                  /\ admits(trader, loop.key, config_store)
                  /\ momentum_gate(config_store, m)
                  /\ fixed_momentum_guard(m)
               THEN [loop EXCEPT !.pc = IF detect_source(loop.key) = "FourMeme"
                                        THEN "swap" ELSE "topup"]
               ELSE LoopIdle
    /\ UNCHANGED <<locks, trader, se, buy_fails, config_store, sim_mode_flag, now, tasks, ui, allowance, events>>

LoopAdmit ==
    \E filters_pass \in BOOLEAN, m \in MetricInputs : LoopAdmitWith(filters_pass, m)

\* a top-up failure that ends the ingestion task instead of the event
LoopTopup_fatal ==
    /\ loop.pc = "topup"
    /\ \E ok \in BOOLEAN :
          IF ok
          THEN /\ loop' = [loop EXCEPT !.pc = "swap"]
               /\ UNCHANGED <<locks, trader, buy_fails>>
          ELSE LET r == record_buy_failure(trader, buy_fails, loop.key)
               IN  /\ trader' = r.trader
                   /\ buy_fails' = r.buy_fails
                   /\ loop' = [loop EXCEPT !.pc = "halted"]
    /\ UNCHANGED <<locks, se, config_store, sim_mode_flag, now, tasks, ui, allowance, events>>

\* V2 / V3: ensure_wbnb_topup; a failed top-up counts as a failed buy
LoopTopup ==
    /\ loop.pc = "topup"
    /\ \E ok \in BOOLEAN :
          IF ok
          THEN /\ loop' = [loop EXCEPT !.pc = "swap"]
               /\ UNCHANGED <<locks, trader, buy_fails>>
          ELSE LET r == record_buy_failure(trader, buy_fails, loop.key)
               IN  /\ trader' = r.trader
                   /\ buy_fails' = r.buy_fails
                   /\ loop' = LoopIdle
    /\ UNCHANGED <<locks, se, config_store, sim_mode_flag, now, tasks, ui, allowance, events>>

\* what the swap and the balance check after it can come to
SwapOutcomes == {"err", "no_increase", "bought"}

\* the swap and the balance check after it, with outcome res
LoopSwapOutcome(res) ==
    /\ loop.pc = "swap"
    /\ LET fm == detect_source(loop.key) = "FourMeme"
           r == record_buy_failure(trader, buy_fails, loop.key)
       IN  /\ trader' = IF res = "err" /\ fm THEN r.trader ELSE trader
           /\ buy_fails' =
                 IF res = "err"
                 THEN IF fm THEN r.buy_fails ELSE buy_fails
                 ELSE IF res = "no_increase"
                 THEN IF fm THEN clear_buy_failures(buy_fails, loop.key) ELSE buy_fails
                 ELSE clear_buy_failures(buy_fails, loop.key)
           /\ loop' = IF res = "bought"
                      THEN [loop EXCEPT !.pc = "buy_mirror"]
                      ELSE LoopIdle
    /\ UNCHANGED <<locks, se, config_store, sim_mode_flag, now, tasks, ui, allowance, events>>

LoopSwap == \E res \in SwapOutcomes : LoopSwapOutcome(res)

\* the buy is mirrored into the engine: submit_buy, then add_real_position
LoopBuyMirror ==
    /\ loop.pc = "buy_mirror"
    /\ LET dex == detect_source(loop.key)
           tp == cfg_tp(config_store)
           sl == cfg_sl(config_store)
           se1 == submit_buy(se, loop.key, dex, BuyAmount, tp, sl).se
       IN  se' = add_real_position(se1, loop.key, dex, loop.price, BuyAmount,
                                   tp, sl, loop.liquidity, now)
    /\ loop' = [loop EXCEPT !.pc = "buy_record"]
    /\ UNCHANGED <<locks, trader, buy_fails, config_store, sim_mode_flag, now, tasks, ui, allowance, events>>

\* record_buy under the trader lock, then queue_allowance_job
LoopRecordBuy ==
    /\ loop.pc = "buy_record"
    /\ trader' = record_buy(trader, RealPosition(loop.key, detect_source(loop.key),
                                                 loop.price, now))
    /\ allowance' = queue_allowance_job(allowance, allowance_key(loop.key))
    /\ loop' = LoopIdle
    /\ UNCHANGED <<locks, se, buy_fails, config_store, sim_mode_flag, now, tasks, ui, events>>

\* --------------------------------------------------- allowance worker
\* a spawned enqueue task sends its job into the channel
AllowanceEnqueue ==
    /\ Len(allowance.queue) < AllowanceQueueCap
    /\ \E key \in DOMAIN allowance.sending :
          allowance' = [allowance EXCEPT !.sending = BagDel(@, key),
                                         !.queue = Append(@, key)]
    /\ UNCHANGED <<locks, trader, se, buy_fails, config_store, sim_mode_flag, now, loop,
                   tasks, ui, events>>

\* rx.recv() in the consumer, which awaits one job before it takes the next
WorkerRecv ==
    /\ ~allowance.job.some
    /\ allowance.queue # <<>>
    /\ allowance' = worker_recv(allowance)
    /\ UNCHANGED <<locks, trader, se, buy_fails, config_store, sim_mode_flag, now, loop,
                   tasks, ui, events>>

\* job.fut.await: one attempt of the running job returns
WorkerAttempt ==
    /\ allowance.job.some
    /\ \E ok \in BOOLEAN : allowance' = send_allowance_with_retry(allowance, ok)
    /\ UNCHANGED <<locks, trader, se, buy_fails, config_store, sim_mode_flag, now, loop,
                   tasks, ui, events>>

\* execute_sell_plan of the tick path arrives at ensure_sell_allowance, which
\* reads the allowance and approves by itself, without the worker
LoopSellAllowance ==
    /\ loop.pc = "sell_exec"
    /\ loop.res = "none"
    /\ loop' = [loop EXCEPT !.res = "allowance"]
    /\ UNCHANGED <<locks, trader, se, buy_fails, config_store, sim_mode_flag, now, tasks,
                   ui, allowance, events>>

\* ------------------------------------------- manual actions, real mode
PartialPcts == {50}                  \* percent points of the partial-take buttons modelled

\* the buttons of a position row, and Take All
Buttons == {"take_all", "partial", "remove", "take", "freeze"}

\* one task t of the multiset moves on to t2
Moves(t, t2) == tasks' = BagAdd(BagDel(tasks, t), t2)

\* one task t of the multiset ends
Ends(t) == tasks' = BagDel(tasks, t)

\* a click in the results view while the toggle is off spawns
\* results_interactions_real; buttons exist for the engine's open positions
Spawn(buttons) ==
    /\ ui = "idle"
    /\ ~sim_mode_flag
    /\ BagSize(tasks) < NumTasks
    /\ \E k \in DOMAIN se.positions, b \in buttons, pct \in PartialPcts :
          tasks' = BagAdd(tasks,
                     IF b = "take_all" THEN NewTask(b, "ack", "k1", 100)
                     ELSE IF b = "partial" THEN NewTask(b, "ack", k, pct)
                     ELSE IF b = "remove" THEN NewTask(b, "remove_real", k, 0)
                     ELSE IF b = "take" THEN NewTask(b, "ack", k, 100)
                     ELSE NewTask(b, "ack", k, 0))
    /\ UNCHANGED <<locks, trader, se, buy_fails, config_store, sim_mode_flag, now, loop, ui, allowance, events>>

\* where a task goes when one manual_sell returns: manual_sell_all goes on
\* with another key of its list, in the order of the map
AfterSell(t, queue) ==
    IF t.kind = "take_all" /\ queue # {}
    THEN \E k \in queue :
            Moves(t, [t EXCEPT !.pc = "reserve", !.key = k, !.queue = queue \ {k}])
    ELSE Ends(t)

\* the liquidity-alert test that precedes every action but Remove
TaskAck ==
    /\ \E t \in DOMAIN tasks :
          /\ t.pc = "ack"
          /\ LET pending == IF t.kind = "take_all"
                            THEN has_pending_liq_alert(se)
                            ELSE position_needs_liq_ack(se, t.key)
             IN  IF pending THEN Ends(t)
                 ELSE IF t.kind = "take_all" THEN Moves(t, [t EXCEPT !.pc = "clear"])
                 ELSE IF t.kind = "freeze" THEN Moves(t, [t EXCEPT !.pc = "freeze"])
                 ELSE Moves(t, [t EXCEPT !.pc = "reserve"])
    /\ UNCHANGED <<locks, trader, se, buy_fails, config_store, sim_mode_flag, now, loop, ui, allowance, events>>

\* manual_sell_all: clears every reservation and lists the positions
TaskClearAll ==
    /\ \E t \in DOMAIN tasks :
          /\ t.pc = "clear"
          /\ trader' = clear_all_closing(trader)
          /\ AfterSell(t, DOMAIN trader.positions)
    /\ UNCHANGED <<locks, se, buy_fails, config_store, sim_mode_flag, now, loop, ui, allowance, events>>

\* manual_sell whose first locked section waits until the ingestion loop is
\* out of its adapter call, as it would if the loop kept the store locked
TaskReserve_behind_loop ==
    /\ loop.pc \notin {"sell_exec", "topup", "swap"}
    /\ \E t \in DOMAIN tasks :
          /\ t.pc = "reserve"
          /\ LET r == reserve_close(trader, t.key)
             IN  IF t.key \notin DOMAIN trader.positions
                 THEN /\ AfterSell(t, t.queue)
                      /\ UNCHANGED trader
                 ELSE IF t.pct >= 100
                 THEN /\ trader' = r.trader
                      /\ IF r.ret THEN Moves(t, [t EXCEPT !.pc = "exec"])
                         ELSE AfterSell(t, t.queue)
                 ELSE /\ Moves(t, [t EXCEPT !.pc = "exec"])
                      /\ UNCHANGED trader
    /\ UNCHANGED <<locks, se, buy_fails, config_store, sim_mode_flag, now, loop, ui, allowance, events>>

\* manual_sell, first locked section: the position must exist, and a full
\* close must reserve it
TaskReserve ==
    /\ \E t \in DOMAIN tasks :
          /\ t.pc = "reserve"
          /\ LET r == reserve_close(trader, t.key)
             IN  IF t.key \notin DOMAIN trader.positions
                 THEN /\ AfterSell(t, t.queue)
                      /\ UNCHANGED trader
                 ELSE IF t.pct >= 100
                 THEN /\ trader' = r.trader
                      /\ IF r.ret THEN Moves(t, [t EXCEPT !.pc = "exec"])
                         ELSE AfterSell(t, t.queue)
                 ELSE /\ Moves(t, [t EXCEPT !.pc = "exec"])
                      /\ UNCHANGED trader
    /\ UNCHANGED <<locks, se, buy_fails, config_store, sim_mode_flag, now, loop, ui, allowance, events>>

\* manual_sell: execute_sell_plan returns (it ran outside every lock); a
\* full close commits or aborts under the trader lock; an error ends the call
TaskCommit ==
    /\ \E t \in DOMAIN tasks :
          /\ t.pc = "exec"
          /\ \E res \in SellOutcomes(detect_source(t.key)) :
                /\ trader' = IF t.pct >= 100
                             THEN commit_or_abort(trader, t.key, res)
                             ELSE trader
                /\ IF SellOk(res)
                   THEN Moves(t, [t EXCEPT !.pc = "mirror"])
                   ELSE AfterSell(t, t.queue)
    /\ UNCHANGED <<locks, se, buy_fails, config_store, sim_mode_flag, now, loop, ui, allowance, events>>

\* manual_sell: the mirror is closed, or partially taken
TaskMirror ==
    /\ \E t \in DOMAIN tasks :
          /\ t.pc = "mirror"
          /\ se' = IF t.pct >= 100
                   THEN take_position(se, t.key, now).se
                   ELSE partial_take(se, t.key, t.pct).se
          /\ AfterSell(t, t.queue)
    /\ UNCHANGED <<locks, trader, buy_fails, config_store, sim_mode_flag, now, loop, ui, allowance, events>>

\* manual_remove_position: the trader's store first
TaskRemoveReal ==
    /\ \E t \in DOMAIN tasks :
          /\ t.pc = "remove_real"
          /\ trader' = remove_position(trader, t.key).trader
          /\ Moves(t, [t EXCEPT !.pc = "remove_sim"])
    /\ UNCHANGED <<locks, se, buy_fails, config_store, sim_mode_flag, now, loop, ui, allowance, events>>

\* manual_remove_position: then the engine
TaskRemoveSim ==
    /\ \E t \in DOMAIN tasks :
          /\ t.pc = "remove_sim"
          /\ se' = sim_remove_position(se, t.key).se
          /\ Ends(t)
    /\ UNCHANGED <<locks, trader, buy_fails, config_store, sim_mode_flag, now, loop, ui, allowance, events>>

\* Freeze / Unfreeze acts on the mirror only
TaskFreeze ==
    /\ \E t \in DOMAIN tasks :
          /\ t.pc = "freeze"
          /\ se' = toggle_freeze(se, t.key).se
          /\ Ends(t)
    /\ UNCHANGED <<locks, trader, buy_fails, config_store, sim_mode_flag, now, loop, ui, allowance, events>>

\* ------------------------------------- manual actions, simulation mode
\* results_interactions runs in the UI task under the engine lock
UiTakeAll ==
    /\ ui = "idle"
    /\ sim_mode_flag
    /\ DOMAIN se.positions # {}
    /\ se' = IF has_pending_liq_alert(se) THEN ack_all_liq_alerts(se)
             ELSE take_all(se, now)
    /\ UNCHANGED <<locks, trader, buy_fails, config_store, sim_mode_flag, now, loop, tasks, ui, allowance, events>>

UiPartial ==
    /\ ui = "idle"
    /\ sim_mode_flag
    /\ \E k \in DOMAIN se.positions, pct \in PartialPcts :
          /\ ~position_needs_liq_ack(se, k)
          /\ se' = partial_take(se, k, pct).se
    /\ UNCHANGED <<locks, trader, buy_fails, config_store, sim_mode_flag, now, loop, tasks, ui, allowance, events>>

UiFreeze ==
    /\ ui = "idle"
    /\ sim_mode_flag
    /\ \E k \in DOMAIN se.positions :
          /\ ~position_needs_liq_ack(se, k)
          /\ se' = toggle_freeze(se, k).se
    /\ UNCHANGED <<locks, trader, buy_fails, config_store, sim_mode_flag, now, loop, tasks, ui, allowance, events>>

UiTake ==
    /\ ui = "idle"
    /\ sim_mode_flag
    /\ \E k \in DOMAIN se.positions :
          /\ ~position_needs_liq_ack(se, k)
          /\ se' = take_position(se, k, now).se
    /\ UNCHANGED <<locks, trader, buy_fails, config_store, sim_mode_flag, now, loop, tasks, ui, allowance, events>>

\* the simulation toggle of the settings view: the flag is stored, and
\* turning simulation off then resets the engine
UiToggleSim ==
    /\ ui = "idle"
    /\ sim_mode_flag' = ~sim_mode_flag
    /\ ui' = IF sim_mode_flag THEN "reset" ELSE "idle"
    /\ UNCHANGED <<locks, trader, se, buy_fails, config_store, now, loop, tasks, allowance, events>>

UiReset ==
    /\ ui = "reset"
    /\ se' = reset(se)
    /\ ui' = "idle"
    /\ UNCHANGED <<locks, trader, buy_fails, config_store, sim_mode_flag, now, loop, tasks, allowance, events>>

\* ------------------------------------------------------- specification
\* the real-trading path of the ingestion loop
LoopReal ==
    \/ LoopSellDecision
    \/ LoopSellCommit
    \/ LoopSellMirror
    \/ LoopAdmit
    \/ LoopTopup
    \/ LoopSwap
    \/ LoopBuyMirror
    \/ LoopRecordBuy

TaskStep(buttons) ==
    \/ Spawn(buttons)
    \/ TaskAck
    \/ TaskClearAll
    \/ TaskReserve
    \/ TaskCommit
    \/ TaskMirror
    \/ TaskRemoveReal
    \/ TaskRemoveSim
    \/ TaskFreeze

UiStep ==
    \/ UiTakeAll
    \/ UiPartial
    \/ UiFreeze
    \/ UiTake

UiToggle ==
    \/ UiToggleSim
    \/ UiReset

\* A session that trades for real throughout: the simulation toggle stays
\* off, and the results view spawns manual actions.
RealConfigs ==
    {c \in ConfigStores : c.tp_enabled /\ c.sl_enabled /\ c.max_hold_secs > 0
                          /\ c.max_hold_pnl /\ c.max_positions = 2}

RealPrices == {100, 115}

RealKeys == {"k1"}

RealButtons == Buttons \ {"partial"}

InitReal == InitWith(RealConfigs, {FALSE})

NextReal ==
    \/ Tick
    \/ LoopRecv(RealKeys, RealPrices, {NoLiq})
    \/ LoopReal
    \/ TaskStep(RealButtons)

SpecReal == InitReal /\ [][NextReal]_vars

\* A session of automatic trading that stays in the mode it starts in, under
\* every configuration of the triggers, with the manual actions of simulation
\* mode.
AutoConfigs == {c \in ConfigStores : c.max_positions = 1}

AutoPrices == {80, 100, 115, 160}

AutoKeys == {"k1"}

InitAuto == InitWith(AutoConfigs, BOOLEAN)

NextAuto ==
    \/ Tick
    \/ LoopRecv(AutoKeys, AutoPrices, {NoLiq})
    \/ LoopAutoTrade
    \/ LoopReal
    \/ UiStep

SpecAuto == InitAuto /\ [][NextAuto]_vars

\* A session in which the simulation toggle is switched back and forth.
ToggleConfigs == {c \in RealConfigs : c.max_hold_secs > 0}

InitToggle == InitWith(ToggleConfigs, BOOLEAN)

NextToggle ==
    \/ Tick
    \/ LoopRecv(RealKeys, RealPrices, {NoLiq})
    \/ LoopAutoTrade
    \/ LoopReal
    \/ UiStep
    \/ UiToggle

SpecToggle == InitToggle /\ [][NextToggle]_vars

\* --------------------------------------- the allowance worker's session
\* real mode with take-profit only, two V3 pools of one token, no manual
\* actions; the worker runs beside the ingestion loop
AllowConfigs ==
    {c \in ConfigStores : /\ c.tp_enabled /\ ~c.sl_enabled /\ c.max_hold_secs = 0
                          /\ ~c.max_hold_pnl /\ c.max_positions = 2}

AllowKeys == {"k3", "k4"}

InitAllow == InitWith(AllowConfigs, {FALSE})

WorkerStep ==
    \/ AllowanceEnqueue
    \/ WorkerRecv
    \/ WorkerAttempt

NextAllow ==
    \/ Tick
    \/ LoopRecv(AllowKeys, RealPrices, {NoLiq})
    \/ LoopReal
    \/ LoopSellAllowance
    \/ WorkerStep

SpecAllow == InitAllow /\ [][NextAllow]_vars

\* ------------------------------------------- partial takes, real mode
\* real mode with the partial-take button beside the ingestion loop
PartialButtons == {"partial"}

NextPartial ==
    \/ Tick
    \/ LoopRecv(RealKeys, RealPrices, {NoLiq})
    \/ LoopReal
    \/ Spawn(PartialButtons)
    \/ TaskAck
    \/ TaskReserve
    \/ TaskCommit
    \/ TaskMirror

SpecPartial == InitReal /\ [][NextPartial]_vars

\* ------------------------------------------------ the event channel
\* the pair streams fill the channel while the loop works through it, in
\* either mode
InitStream == InitWith(RealConfigs, BOOLEAN)

NextStream ==
    \/ Tick
    \/ Arrive(RealKeys, RealPrices, {NoLiq})
    \/ LoopRecvQueued
    \/ LoopAutoTrade
    \/ LoopReal

SpecStream == InitStream /\ [][NextStream]_vars

\* A session whose ticks carry liquidity values, below and above the guard,
\* in either mode, with the manual actions of simulation mode.
InitLiq == InitWith(RealConfigs, BOOLEAN)

NextLiq ==
    \/ Tick
    \/ LoopRecv(RealKeys, RealPrices, Liquidities)
    \/ LoopAutoTrade
    \/ LoopReal
    \/ UiStep

SpecLiq == InitLiq /\ [][NextLiq]_vars

\* Sessions with more pairs than the position limit allows: one position at
\* most, two pairs, take-profit only, no hold time (the clock plays no part).
\* SpecLimit stays in the mode it starts in, SpecLimitToggled switches the
\* simulation toggle back and forth.
LimitConfigs ==
    {c \in ConfigStores : /\ c.tp_enabled /\ ~c.sl_enabled /\ c.max_hold_secs = 0
                          /\ ~c.max_hold_pnl /\ c.max_positions = 1}

LimitKeys == {"k1", "k2"}

InitLimit == InitWith(LimitConfigs, BOOLEAN)

NextLimit ==
    \/ LoopRecv(LimitKeys, RealPrices, {NoLiq})
    \/ LoopAutoTrade
    \/ LoopReal
    \/ UiTake

SpecLimit == InitLimit /\ [][NextLimit]_vars

NextLimitToggled ==
    \/ NextLimit
    \/ UiToggle

SpecLimitToggled == InitLimit /\ [][NextLimitToggled]_vars

\* Sessions under several settings of the momentum gate, in either mode.
GateConfigs ==
    {[c EXCEPT !.min_pnl_pct = a, !.freshness_secs = b] :
        c \in LimitConfigs, a \in {50, 100}, b \in {30, 40}}

InitGate == InitWith(GateConfigs, BOOLEAN)

NextGate ==
    \/ LoopRecv(RealKeys, RealPrices, {NoLiq})
    \/ LoopAutoTrade
    \/ LoopReal

SpecGate == InitGate /\ [][NextGate]_vars

\* the channel in real mode, where the adapter calls fail; the ingestion task
\* is scheduled whenever it can run, and every adapter call it awaits returns
NextStreamLive ==
    \/ Arrive(RealKeys, RealPrices, {NoLiq})
    \/ LoopRecvQueued
    \/ LoopReal

SpecStreamLive ==
    /\ InitReal /\ [][NextStreamLive]_vars
    /\ WF_vars(LoopRecvQueued)
    /\ WF_vars(LoopReal)

\* ------------------------------------- manual Take and Remove, real mode
\* real mode with the Take and Remove buttons beside the ingestion loop
CloseButtons == {"take", "remove"}

NextClose ==
    \/ Tick
    \/ LoopRecv(RealKeys, RealPrices, {NoLiq})
    \/ LoopReal
    \/ Spawn(CloseButtons)
    \/ TaskAck
    \/ TaskReserve
    \/ TaskCommit
    \/ TaskMirror
    \/ TaskRemoveReal
    \/ TaskRemoveSim

SpecClose == InitReal /\ [][NextClose]_vars

\* real mode with the Take button alone beside the ingestion loop: every
\* position that leaves the engine's open map leaves it by a full close
TakeButtons == {"take"}

NextTake ==
    \/ Tick
    \/ LoopRecv(RealKeys, RealPrices, {NoLiq})
    \/ LoopReal
    \/ Spawn(TakeButtons)
    \/ TaskAck
    \/ TaskReserve
    \/ TaskCommit
    \/ TaskMirror

SpecTake == InitReal /\ [][NextTake]_vars

\* ------------------------------------------------------------- properties
\* the steps of the ingestion loop, told by the position it leaves and enters
Decides == loop.pc = "dispatch" /\ ~sim_mode_flag /\ loop' # loop

Triggers == Decides /\ loop'.pc = "sell_exec"

Commits == loop.pc = "sell_exec" /\ loop'.pc = "sell_mirror"

Admits == loop.pc = "admit" /\ loop'.pc \in {"topup", "swap"}

Receives == loop.pc = "recv" /\ loop'.pc = "dispatch"

\* the full closes of key k whose sell is executing
FullClosesInFlight(k) ==
    (IF loop.pc = "sell_exec" /\ loop.key = k THEN 1 ELSE 0)
        + BagCount(tasks, {t \in DOMAIN tasks :
                              t.pc = "exec" /\ t.pct >= 100 /\ t.key = k})

\* C1: for every pair key, at most one full close (tick-triggered, manual at
\* 100%, or Take-All) holds the reservation and executes its sell at a time.
C1_OneFullCloseInFlight == \A k \in Keys : FullClosesInFlight(k) <= 1

\* C2: reserve_close(k) returns true exactly when k has a position and is not
\* in the closing set; on true it adds k to the closing set and changes nothing
\* else, on false it changes nothing; called again at once it returns false.
C2_ReserveClose ==
    \A k \in Keys :
        LET r == reserve_close(trader, k)
            again == reserve_close(r.trader, k)
        IN  /\ r.ret = (k \in DOMAIN trader.positions /\ k \notin trader.closing)
            /\ r.trader.positions = trader.positions
            /\ r.trader.do_not_rebuy = trader.do_not_rebuy
            /\ r.trader.closing = IF r.ret THEN trader.closing \cup {k}
                                  ELSE trader.closing
            /\ r.ret => ~again.ret /\ again.trader = r.trader

\* a manual full close holds the reservation it took with reserve_close
C2_Reserved ==
    \E t \in DOMAIN tasks :
        /\ t.pc = "exec" /\ t.pct >= 100
        /\ t.key \in trader.closing
        /\ ~reserve_close(trader, t.key).ret

\* C3: the decision and the reservation are one step: a plan for k leaves k
\* in the closing set, a decision for k taken while k is in the closing set
\* gives no plan at any price, and until the close commits or aborts the loop
\* processes no other tick.
C3_DecideAndReserve ==
    [][/\ \A k \in Keys, p \in Prices :
              k \in trader.closing =>
                  LET d == sell_decision(trader, k, p, config_store, now)
                  IN  ~d.plan.some /\ d.trader = trader
       /\ Triggers => /\ loop.key \notin trader.closing
                      /\ loop.key \in trader'.closing
                      /\ loop'.plan.pair_key = loop.key
       /\ Decides /\ loop.key \in trader.closing =>
              loop'.pc # "sell_exec" /\ trader' = trader
       /\ loop.pc = "sell_exec" =>
              \/ loop' = loop
              \/ Commits /\ loop'.key = loop.key /\ loop'.plan = loop.plan
      ]_vars

\* a tick-triggered close holds its reservation while the sell executes
C3_Triggered ==
    /\ loop.pc = "sell_exec"
    /\ loop.plan.some
    /\ loop.key \in trader.closing

C6_ZeroBalanceNotCommitted ==
    [][Commits /\ loop'.res = "zero_balance" =>
           /\ loop.key \in DOMAIN trader.positions =>
                  loop.key \in DOMAIN trader'.positions
           /\ loop.key \notin trader'.do_not_rebuy
      ]_vars

\* the mirror of key k is frozen
Frozen(k) == k \in DOMAIN se.positions /\ se.positions[k].frozen

\* C7: a frozen position is not closed by take-profit, stop-loss or max-hold:
\* the tick of a frozen key makes the real trader plan no sell, and does not
\* take the position out of the simulation engine.
C7_FrozenNotTriggered ==
    [][/\ Triggers => ~Frozen(loop.key)
       /\ Receives /\ Frozen(loop'.key) => loop'.key \in DOMAIN se'.positions
      ]_vars

\* a simulated buy of key k, as auto_trade submits it to engine e
SimBuy(e, k) ==
    submit_buy(e, k, detect_source(k), BuyAmount,
               cfg_tp(config_store), cfg_sl(config_store))

\* C4: a buy is admitted for k only while k has no position, is not closing
\* and is not blocked; a blocked key stays blocked, so the real trader admits
\* no later buy for it, and the engine's submit_buy returns false for it, also
\* after reset.
C4_BlockedNeverBought ==
    [][/\ Admits => /\ loop.key \notin DOMAIN trader.positions
                    /\ loop.key \notin trader.closing
                    /\ loop.key \notin trader.do_not_rebuy
       /\ \A k \in trader.do_not_rebuy :
              /\ k \in trader'.do_not_rebuy
              /\ ~admits(trader', k, config_store)
              /\ ~(loop'.pc \in {"topup", "swap", "buy_mirror", "buy_record"}
                      /\ loop'.key = k)
       /\ \A k \in se.do_not_rebuy :
              /\ k \in se'.do_not_rebuy
              /\ ~SimBuy(se', k).ret
              /\ ~SimBuy(reset(se'), k).ret
      ]_vars

\* the engine has been reset after key k1 was closed in both stores
C4_BlockedAfterReset ==
    /\ "k1" \in trader.do_not_rebuy
    /\ "k1" \in se.do_not_rebuy
    /\ se.closed_positions = << >>
    /\ DOMAIN se.positions = {}
    /\ ui = "idle"

\* take-profit is due for the real position of key k at price p
RealTpDue(k, p) ==
    /\ p > 0
    /\ k \in DOMAIN trader.positions
    /\ k \notin trader.closing
    /\ trader.positions[k].entry_price > 0
    /\ config_store.tp_enabled
    /\ PctGe(PnlPct(p, trader.positions[k].entry_price), config_store.tp_pct)

\* take-profit is due for the simulated position of key k at price p
SimTpDue(k, p) ==
    /\ sim_mode_flag
    /\ k \notin DOMAIN se.pending_buys
    /\ k \in DOMAIN se.positions
    /\ se.positions[k].entry_price > 0
    /\ ~se.positions[k].frozen
    /\ se.positions[k].remaining_amount_wbnb > 0
    /\ se.positions[k].tp_pct # NoPct
    /\ PctGe(PnlPct(p, se.positions[k].entry_price), se.positions[k].tp_pct)

\* the take-profit closes of key k in the engine's history
TpCloses(e, k) ==
    {i \in 1..Len(e.closed_positions) :
        /\ e.closed_positions[i].pair_address = k
        /\ e.closed_positions[i].status = "ClosedTP"}

\* C8: a tick with pnl_pct >= tp_pct makes one take-profit close: the real
\* trader plans TakeProfit and its commit removes the position and blocks the
\* key; the engine closes the position as ClosedTP, once per key; the blocked
\* key rejects every later buy.
C8_TakeProfitOnce ==
    [][/\ Decides /\ RealTpDue(loop.key, loop.price) =>
              /\ Triggers
              /\ loop'.plan.trigger = [kind |-> "TakeProfit",
                                       arg |-> config_store.tp_pct]
       /\ Commits /\ SellOk(loop'.res) =>
              /\ loop.key \notin DOMAIN trader'.positions
              /\ loop.key \in trader'.do_not_rebuy
       /\ \A k \in trader.do_not_rebuy :
              /\ k \in trader'.do_not_rebuy
              /\ k \notin DOMAIN trader'.positions
              /\ ~admits(trader', k, config_store)
       /\ Receives /\ SimTpDue(loop'.key, loop'.price) =>
              /\ loop'.key \notin DOMAIN se'.positions
              /\ loop'.key \in se'.do_not_rebuy
              /\ Len(se'.closed_positions) = Len(se.closed_positions) + 1
              /\ Len(se'.closed_positions) \in TpCloses(se', loop'.key)
       /\ \A k \in Keys : Cardinality(TpCloses(se', k)) <= 1
       /\ \A k \in se.do_not_rebuy :
              /\ k \in se'.do_not_rebuy
              /\ ~SimBuy(se', k).ret
      ]_vars

\* the tick at 1.15 has triggered TakeProfit on the position entered at 1.00
C8_ScenarioB ==
    /\ loop.pc = "sell_exec"
    /\ loop.price = 115
    /\ loop.key \in DOMAIN trader.positions
    /\ trader.positions[loop.key].entry_price = 100
    /\ config_store.tp_pct = 10
    /\ loop.plan.trigger.kind = "TakeProfit"

\* the trigger that the stated order gives for position pos at price p, the
\* hold test being elapsed > max_hold_secs when strict and >= otherwise
OrderedTrigger(pos, p, strict) ==
    LET pnl == PnlPct(p, pos.entry_price)
        elapsed == now - pos.opened_at
        held == IF strict THEN elapsed > config_store.max_hold_secs
                ELSE elapsed >= config_store.max_hold_secs
    IN  IF config_store.tp_enabled /\ PctGe(pnl, config_store.tp_pct)
        THEN "TakeProfit"
        ELSE IF config_store.sl_enabled /\ PctLe(pnl, 0 - config_store.sl_pct)
        THEN "StopLoss"
        ELSE IF /\ config_store.max_hold_secs > 0
                /\ held
                /\ (~config_store.max_hold_pnl \/ PctLe(pnl, MaxHoldPnlGate))
        THEN "MaxHold"
        ELSE "None"

\* every decision on a position that can be closed follows the stated order
DecidesInOrder(strict) ==
    \A k \in DOMAIN trader.positions, p \in Prices :
        p > 0 /\ k \notin trader.closing /\ trader.positions[k].entry_price > 0 =>
            LET d == sell_decision(trader, k, p, config_store, now)
                tr == OrderedTrigger(trader.positions[k], p, strict)
            IN  IF tr = "None"
                THEN ~d.plan.some /\ d.trader = trader
                ELSE /\ d.plan.some
                     /\ d.plan.trigger.kind = tr
                     /\ d.trader = [trader EXCEPT !.closing = @ \cup {k}]

\* C9 as stated: take-profit, else stop-loss, else max-hold when the elapsed
\* time exceeds the hold duration and the gate allows it; one trigger at most,
\* and without a trigger no plan and no reservation.
C9_OrderHoldExceeded == DecidesInOrder(TRUE)

\* C9, amended: the same order, max-hold being due when the elapsed whole
\* seconds have reached the hold duration (elapsed >= max_hold_secs).
C9_OrderHoldReached == DecidesInOrder(FALSE)

\* max-hold has fired on a position for which take-profit was not due
C9_MaxHoldLast ==
    /\ loop.pc = "sell_exec"
    /\ loop.plan.trigger.kind = "MaxHold"
    /\ config_store.tp_enabled /\ config_store.sl_enabled

\* the hold duration of the real position of key k is over
RealHeld(k) ==
    /\ k \in DOMAIN trader.positions
    /\ k \notin trader.closing
    /\ trader.positions[k].entry_price > 0
    /\ config_store.max_hold_secs > 0
    /\ now - trader.positions[k].opened_at >= config_store.max_hold_secs

\* the hold duration of the simulated position of key k is over
SimHeld(k) ==
    /\ sim_mode_flag
    /\ k \notin DOMAIN se.pending_buys
    /\ k \in DOMAIN se.positions
    /\ se.positions[k].entry_price > 0
    /\ ~se.positions[k].frozen
    /\ se.positions[k].remaining_amount_wbnb > 0
    /\ se.max_hold_secs > 0
    /\ duration_secs(se.positions[k], now) >= se.max_hold_secs

\* pnl at price p is above the gate, for an entry price
AboveGate(p, entry) == ~PctLe(PnlPct(p, entry), MaxHoldPnlGate)

\* neither take-profit nor stop-loss is due at price p with thresholds tp, sl
NoTpSl(p, entry, tp, sl) ==
    /\ tp = NoPct \/ ~PctGe(PnlPct(p, entry), tp)
    /\ sl = NoPct \/ ~PctLe(PnlPct(p, entry), 0 - sl)

\* C10: once the hold duration is over, max-hold does not close a position
\* whose pnl is above 50% while the gate is enabled, and closes it whatever
\* its pnl while the gate is disabled (take-profit and stop-loss not being
\* due); in the real trader's decision and in the engine.
C10_MaxHoldPnlGate ==
    [][/\ Decides /\ loop.price > 0 /\ RealHeld(loop.key) =>
              LET entry == trader.positions[loop.key].entry_price
              IN  /\ config_store.max_hold_pnl /\ AboveGate(loop.price, entry) =>
                         ~(Triggers /\ loop'.plan.trigger.kind = "MaxHold")
                  /\ ~config_store.max_hold_pnl
                         /\ NoTpSl(loop.price, entry, cfg_tp(config_store),
                                   cfg_sl(config_store)) =>
                         Triggers /\ loop'.plan.trigger.kind = "MaxHold"
       /\ Receives /\ SimHeld(loop'.key) =>
              LET pos == se.positions[loop'.key]
                  quiet == NoTpSl(loop'.price, pos.entry_price, pos.tp_pct, pos.sl_pct)
              IN  /\ se.max_hold_pnl_enabled /\ quiet
                         /\ AboveGate(loop'.price, pos.entry_price) =>
                         loop'.key \in DOMAIN se'.positions
                  /\ ~se.max_hold_pnl_enabled /\ quiet =>
                         /\ loop'.key \notin DOMAIN se'.positions
                         /\ se'.closed_positions[Len(se'.closed_positions)].status
                                = "ClosedManual"
      ]_vars

\* with the gate disabled, max-hold has fired on a position above 50% pnl
C10_UngatedFires ==
    /\ loop.pc = "sell_exec"
    /\ loop.plan.trigger.kind = "MaxHold"
    /\ ~config_store.max_hold_pnl
    /\ loop.key \in DOMAIN trader.positions
    /\ AboveGate(loop.price, trader.positions[loop.key].entry_price)

\* the step in which auto_trade submits a simulated buy for the tick's key
Submits ==
    /\ loop.pc = "dispatch" /\ sim_mode_flag /\ loop'.pc = "recv"
    /\ loop.key \notin DOMAIN se.pending_buys
    /\ loop.key \in DOMAIN se'.pending_buys

\* C11: a simulated buy submitted on a tick opens no position on that tick,
\* it only queues a pending buy; the next tick for that key consumes the
\* pending buy exactly once (it is no longer pending afterwards) and opens a
\* position whose entry price is that tick's price.
C11_PendingBuyExecutesNextTick ==
    [][/\ Submits =>
            /\ se'.positions = se.positions
            /\ loop.key \notin DOMAIN se'.positions
            /\ se'.closed_positions = se.closed_positions
       /\ Receives /\ loop'.key \in DOMAIN se.pending_buys =>
            /\ loop'.key \notin DOMAIN se'.pending_buys
            /\ loop'.key \in DOMAIN se'.positions
            /\ se'.positions[loop'.key].entry_price = loop'.price
            /\ se'.positions[loop'.key].opened_at = now
            /\ is_open(se'.positions[loop'.key])
            /\ se'.closed_positions = se.closed_positions
       /\ loop.pc # "recv" => DOMAIN se.pending_buys \subseteq DOMAIN se'.pending_buys
      ]_vars

\* a buy submitted at time 0 has been executed by a tick at time 1, at that
\* tick's price, and nothing is pending any more
C11_ExecutedAtTickPrice ==
    /\ sim_mode_flag /\ loop.pc = "dispatch" /\ now = 1
    /\ loop.key \in DOMAIN se.positions
    /\ se.positions[loop.key].entry_price = loop.price
    /\ se.positions[loop.key].opened_at = 1
    /\ loop.price = 115
    /\ se.pending_buys = EmptyMap

\* C12: every failed buy attempt for P (the top-up fails, or the swap returns
\* an adapter error, on any venue) raises P's count of consecutive failures by
\* one; when the count reaches three P is in the blocked set; and a blocked P
\* is rejected at admission, before any adapter call.
C12_ThreeFailuresBlock ==
    [][/\ (\/ loop.pc = "topup" /\ loop'.pc = "recv"
           \/ LoopSwapOutcome("err"))
          => /\ buy_fails'[loop.key] = buy_fails[loop.key] + 1
             /\ buy_fails'[loop.key] >= BuyFailLimit =>
                    loop.key \in trader'.do_not_rebuy
       /\ Admits => loop.key \notin trader.do_not_rebuy
      ]_vars

\* the consumer takes a job out of the channel
WorkerTakes == Len(allowance'.queue) < Len(allowance.queue)

\* C13: the worker takes jobs one at a time, only when no job is running, and
\* drops a job whose key is in the approved set without running it; a key
\* enters the approved set only from the running job, and only when it was
\* not there.  So of two jobs with one key whose first run succeeds, one
\* approval is executed and the second job is a no-op.
C13_ApprovedJobsDropped ==
    [][/\ WorkerTakes =>
            /\ ~allowance.job.some
            /\ allowance'.queue = Tail(allowance.queue)
            /\ allowance'.approved = allowance.approved
            /\ (Head(allowance.queue) \in allowance.approved
                   => allowance'.job = NoJob)
       /\ allowance'.approved # allowance.approved =>
            /\ allowance.job.some
            /\ allowance.job.key \notin allowance.approved
            /\ allowance'.approved = allowance.approved \cup {allowance.job.key}
      ]_vars

\* the first job for the key of the two V3 pools has succeeded and the job
\* queued by the buy in the other pool is next in the channel
C13_SecondJobWaiting ==
    /\ ~allowance.job.some
    /\ allowance.queue # <<>>
    /\ Head(allowance.queue) = allowance_key("k3")
    /\ allowance_key("k3") \in allowance.approved
    /\ {"k3", "k4"} \subseteq DOMAIN trader.positions

\* the approval step of the tick path's sell is in progress for allowance key a
SellPathApproving(a) ==
    /\ loop.pc = "sell_exec"
    /\ loop.res = "allowance"
    /\ allowance_key(loop.key) = a

\* C14: per (token, venue) key at most one approval is in progress at a time,
\* whether the background worker or the sell path's own allowance step issues
\* it: the sell path does not approve a key while the worker's job for that
\* key is running.
C14_OneApprovalAtATime ==
    allowance.job.some => ~SellPathApproving(allowance.job.key)

\* C15: a running job makes at most three attempts; it ends at the first
\* attempt that succeeds, and then its key enters the approved set; it fails
\* only when the third attempt has failed, and then its key stays out of the
\* approved set, so that a later job with that key is run again.
C15_ThreeAttempts ==
    [][/\ allowance.job.some => allowance.job.attempt < AllowanceAttempts
       /\ allowance.job.some /\ allowance'.job # allowance.job =>
            \/ /\ allowance'.job = NoJob
               /\ allowance'.approved = allowance.approved \cup {allowance.job.key}
            \/ /\ allowance'.job = [allowance.job EXCEPT !.attempt = @ + 1]
               /\ allowance'.approved = allowance.approved
            \/ /\ allowance'.job = NoJob
               /\ allowance.job.attempt = AllowanceAttempts - 1
               /\ allowance'.approved = allowance.approved
               /\ allowance.job.key \notin allowance'.approved
       /\ WorkerTakes /\ Head(allowance.queue) \notin allowance.approved =>
            allowance'.job = [some |-> TRUE, key |-> Head(allowance.queue),
                              attempt |-> 0]
      ]_vars

\* two attempts of the running job have failed and the third is to come
C15_ThirdAttempt ==
    /\ allowance.job.some
    /\ allowance.job.attempt = AllowanceAttempts - 1
    /\ allowance.job.key \notin allowance.approved

\* the full closes of key k that hold a reservation and have not yet come to
\* their commit or abort, in loop position l and task multiset ts
ReservedCloses(l, ts, k) ==
    (IF l.pc = "sell_exec" /\ l.key = k THEN 1 ELSE 0)
    + BagCount(ts, {t \in DOMAIN ts : t.pc = "exec" /\ t.key = k /\ t.pct >= 100})

\* C16: per pair key the real trader moves only along
\* None -> Pending -> Open -> Closing -> {Closed | Open}: a position leaves
\* the store only from Closing, at the commit of a sell of that key; a key
\* enters Closing only when a close reserves it; and a key leaves Closing only
\* when a sell of that key commits or aborts, so no operation goes from Open
\* straight to Closed or clears a reservation while its sell is executing.
C16_StateMachine ==
    [][\A k \in Keys :
          LET ends == ReservedCloses(loop', tasks', k) < ReservedCloses(loop, tasks, k)
              begins == ReservedCloses(loop', tasks', k) > ReservedCloses(loop, tasks, k)
          IN  /\ k \in DOMAIN trader.positions /\ k \notin DOMAIN trader'.positions
                    => k \in trader.closing /\ ends
              /\ k \notin trader.closing /\ k \in trader'.closing => begins
              /\ k \in trader.closing /\ k \notin trader'.closing => ends
      ]_vars

\* the manual partial sells of key k that are executing
PartialSellsInFlight(k) ==
    BagCount(tasks, {t \in DOMAIN tasks : t.pc = "exec" /\ t.key = k /\ t.pct < 100})

\* C17: a manual partial close takes the path of a full close: it does not
\* execute while its key is reserved for closing, so no partial sell of a
\* pair runs while a triggered or manual full close of that pair is executing.
C17_PartialNotDuringFullClose ==
    \A k \in Keys :
        PartialSellsInFlight(k) > 0 =>
            /\ k \notin trader.closing
            /\ ReservedCloses(loop, tasks, k) = 0

\* store t2 differs from store t at most in the entries of key k
OnlyKeyChanged(t, t2, k) ==
    /\ MapDel(t2.positions, k) = MapDel(t.positions, k)
    /\ t2.closing \ {k} = t.closing \ {k}
    /\ t2.do_not_rebuy \ {k} = t.do_not_rebuy \ {k}

Processing == loop.pc # "recv"

\* C19: the loop takes an event only when it has finished with the one
\* before, adapter round trips included, and it takes the oldest event of the
\* channel; while it processes an event nothing is taken and the event in hand
\* stays the same; arrivals queue up behind in their order.  So the tick
\* path has one decision or adapter call in progress at a time.
C19_OneEventAtATime ==
    [][/\ Len(events') < Len(events) =>
            /\ ~Processing
            /\ events' = Tail(events)
            /\ loop'.pc = "dispatch"
            /\ loop'.key = Head(events).key
            /\ loop'.price = Head(events).price
            /\ loop'.liquidity = Head(events).liquidity
       /\ Processing =>
            /\ Len(events') >= Len(events)
            /\ loop'.pc # "recv" =>
                  /\ loop'.pc = "dispatch" => loop' = loop
                  /\ loop'.key = loop.key
                  /\ loop'.price = loop.price
       /\ Len(events') > Len(events) =>
            /\ SubSeq(events', 1, Len(events)) = events
            /\ loop' = loop
      ]_vars

\* two different events wait in the channel while the loop is in an adapter
\* call of the event before them
C19_EventsWaitDuringAdapterCall ==
    /\ loop.pc \in {"sell_exec", "topup", "swap"}
    /\ Len(events) >= 2
    /\ events[1] # events[2]

\* the tick path is inside an adapter call (sell, top-up or buy swap)
LoopInAdapterCall == loop.pc \in {"sell_exec", "topup", "swap"}

\* a manual task is inside the adapter calls of execute_sell_plan
TaskInAdapterCall == \E t \in DOMAIN tasks : t.pc = "exec"

\* some manual task stands before the locked section it enters from pc
TaskAt(pc) == \E t \in DOMAIN tasks : t.pc = pc

C21_ErrorsDoNotHaltLoop ==
    /\ Processing ~> ~Processing
    /\ (~Processing /\ events # <<>>) ~> (loop.pc = "dispatch")

\* a sell has failed (allowance, swap, timeout or balance error) while events
\* wait in the channel
C21_FailedSellEventsWaiting ==
    /\ loop.pc = "sell_mirror"
    /\ ~SellOk(loop.res)
    /\ Len(events) >= 2

\* the positions of a store that belong to pair key k
PositionsOf(positions, k) ==
    {j \in DOMAIN positions : positions[j].pair_address = k}

\* C22: each store holds at most one open position per pair key: a position
\* is stored under its own pair key, so no key has two, and mirroring a real
\* buy into an engine that already holds the key leaves that position as it is
\* instead of opening a second one.
C22_OnePositionPerKey ==
    [][/\ \A k \in Keys :
            /\ Cardinality(PositionsOf(trader.positions, k)) <= 1
            /\ Cardinality(PositionsOf(se.positions, k)) <= 1
            /\ PositionsOf(trader.positions, k) \subseteq {k}
            /\ PositionsOf(se.positions, k) \subseteq {k}
       /\ (loop.pc = "buy_mirror" /\ loop'.pc = "buy_record"
              /\ loop.key \in DOMAIN se.positions)
          => se'.positions = se.positions]_vars

\* a real buy of a key is being recorded while the engine still holds the
\* position it opened on that key in paper trading, at another entry price
C22_BuyOnKeyHeldByEngine ==
    /\ loop.pc = "buy_record"
    /\ loop.key \in DOMAIN se.positions
    /\ se.positions[loop.key].entry_price # loop.price

\* C23: the remaining size of a position held in the engine never grows from
\* one step to the next, and it stays between 0 and the committed size.
C23_RemainingNeverIncreases ==
    [][\A k \in DOMAIN se.positions :
          /\ se.positions[k].remaining_amount_wbnb >= 0
          /\ se.positions[k].remaining_amount_wbnb <= se.positions[k].buy_amount_wbnb
          /\ k \in DOMAIN se'.positions
             => se'.positions[k].remaining_amount_wbnb
                    <= se.positions[k].remaining_amount_wbnb]_vars

\* the fractions tried on each position, in percent: inside and outside (0, 1]
FractionInputs == {0 - 50, 0, 50, 100, 150}

\* r.realized = R * f * ((C / E) - 1), with f = pct / 100
RealizedAsStated(r, pos, pct) ==
    r.realized.num * 100 * pos.entry_price
        = pos.remaining_amount_wbnb * pct * (pos.current_price - pos.entry_price)
              * r.realized.den

\* the accumulator has grown by exactly what the call returned
AccumulatorGrewBy(r, pos) ==
    r.pos.realized_pnl_wbnb = FracAdd(pos.realized_pnl_wbnb, r.realized)

NothingRealized(r, pos) == r.realized = ZeroWbnb /\ r.pos = pos

InRange(pos, pct) ==
    pct > 0 /\ pct <= 100 /\ pos.remaining_amount_wbnb > 0 /\ pos.entry_price > 0

\* the claim as it stands: the remaining size is R * (1 - f), whatever its size
C24_PartialCloseExact ==
    \A k \in DOMAIN se.positions : \A pct \in FractionInputs :
        LET pos == se.positions[k]
            r == partial_sell_fraction(pos, pct)
        IN  IF InRange(pos, pct)
            THEN /\ RealizedAsStated(r, pos, pct)
                 /\ AccumulatorGrewBy(r, pos)
                 /\ r.pos.remaining_amount_wbnb * 100
                        = pos.remaining_amount_wbnb * (100 - pct)
            ELSE pos.entry_price > 0 => NothingRealized(r, pos)

\* C24: a partial close of fraction f in (0, 1] of a position with remaining
\* size R > 0 and entry price E > 0 returns R * f * ((C / E) - 1), adds exactly
\* that to the realized accumulator, and leaves R * (1 - f), or 0 when
\* R * (1 - f) is below 1e-12 (one unit); for f outside (0, 1] or R = 0 it
\* returns 0 and changes nothing.
C24_PartialCloseClamped ==
    \A k \in DOMAIN se.positions : \A pct \in FractionInputs :
        LET pos == se.positions[k]
            r == partial_sell_fraction(pos, pct)
            left == pos.remaining_amount_wbnb * (100 - pct)
        IN  IF InRange(pos, pct)
            THEN /\ RealizedAsStated(r, pos, pct)
                 /\ AccumulatorGrewBy(r, pos)
                 /\ IF left < 100
                    THEN r.pos.remaining_amount_wbnb = 0
                    ELSE r.pos.remaining_amount_wbnb * 100 = left
            ELSE pos.entry_price > 0 => NothingRealized(r, pos)

\* a position that a partial take has halved at a profit or a loss, so that
\* the next half is below one unit
C24_HalvedAtProfitOrLoss ==
    \E k \in DOMAIN se.positions :
        /\ ~se.positions[k].frozen
        /\ se.positions[k].remaining_amount_wbnb = 1
        /\ se.positions[k].realized_pnl_wbnb # ZeroWbnb
        /\ se.positions[k].current_price # se.positions[k].entry_price

\* what partial_take leaves of the engine besides the position of k
KeepsOpen(e, e2, k) ==
    /\ DOMAIN e2.positions = DOMAIN e.positions
    /\ e2.positions[k].status = e.positions[k].status
    /\ e2.positions[k].closed_at = e.positions[k].closed_at
    /\ e2.closed_positions = e.closed_positions
    /\ e2.do_not_rebuy = e.do_not_rebuy
    /\ e2.pending_buys = e.pending_buys
    /\ \A j \in DOMAIN e.positions \ {k} : e2.positions[j] = e.positions[j]

\* C25: partial_take, whatever the fraction and also when nothing remains
\* afterwards, keeps the position in the open map with its status, archives
\* nothing and blocks nothing; and a position with nothing remaining is not
\* closed by a tick either: it stays in the open map until a full take.
C25_PartialTakeNeverCloses ==
    [][/\ \A k \in DOMAIN se.positions : \A pct \in FractionInputs :
             KeepsOpen(se, partial_take(se, k, pct).se, k)
       /\ (/\ Receives
           /\ loop'.key \in DOMAIN se.positions
           /\ loop'.key \notin DOMAIN se.pending_buys
           /\ se.positions[loop'.key].remaining_amount_wbnb = 0)
          => /\ KeepsOpen(se, se', loop'.key)
             /\ se'.positions[loop'.key].remaining_amount_wbnb = 0]_vars

\* paper trading: a position sold down to nothing is still in the open map,
\* Open, after a tick that has put it above its take-profit level
C25_SoldOutStillOpen ==
    \E k \in DOMAIN se.positions :
        /\ sim_mode_flag
        /\ se.positions[k].remaining_amount_wbnb = 0
        /\ se.positions[k].status = "Open"
        /\ ~se.positions[k].frozen
        /\ se.positions[k].tp_pct # NoPct
        /\ PctGe(se.positions[k].pnl_pct, se.positions[k].tp_pct)

AlertPending(k) == k \in DOMAIN se.positions /\ se.positions[k].needs_liq_ack

\* C26: while the liquidity alert of a position is unacknowledged, no step
\* closes it, in part or in full: the position stays in the engine with its
\* remaining size and its status, and the real trader keeps its position.
C26_NoCloseWhileAlertPending ==
    [][\A k \in Keys :
          AlertPending(k)
          => /\ k \in DOMAIN se'.positions
             /\ se'.positions[k].remaining_amount_wbnb
                    = se.positions[k].remaining_amount_wbnb
             /\ se'.positions[k].status = se.positions[k].status
             /\ k \in DOMAIN trader.positions => k \in DOMAIN trader'.positions]_vars

\* C27: the engine update of a tick taken while the simulation toggle is off
\* (allow_close = false) removes no position, archives nothing, blocks nothing
\* and leaves every position Open.
C27_MirrorUpdateClosesNothing ==
    [][(Receives /\ ~sim_mode_flag)
       => /\ DOMAIN se.positions \subseteq DOMAIN se'.positions
          /\ se'.closed_positions = se.closed_positions
          /\ se'.do_not_rebuy = se.do_not_rebuy
          /\ \A k \in DOMAIN se'.positions : is_open(se'.positions[k])]_vars

\* the engine's position of k is one the real trader could hold, under the
\* configuration the real trader reads: open, not frozen, something
\* remaining, a positive entry price, no pending buy on the key
Comparable(k) ==
    /\ k \in DOMAIN se.positions
    /\ k \notin DOMAIN se.pending_buys
    /\ is_open(se.positions[k])
    /\ ~se.positions[k].frozen
    /\ se.positions[k].remaining_amount_wbnb > 0
    /\ se.positions[k].entry_price > 0
    /\ se.positions[k].tp_pct = cfg_tp(config_store)
    /\ se.positions[k].sl_pct = cfg_sl(config_store)
    /\ se.max_hold_secs = config_store.max_hold_secs
    /\ se.max_hold_pnl_enabled = config_store.max_hold_pnl

\* the reason of the engine's close of k by update_or_execute, or "None"
SimCloseReason(r, k) ==
    IF k \in DOMAIN r.se.positions THEN "None"
    ELSE IF r.msg = "MAX HOLD TAKE" THEN "MaxHold"
    ELSE LET last == r.se.closed_positions[Len(r.se.closed_positions)]
         IN  IF last.status = "ClosedTP" THEN "TakeProfit"
             ELSE IF last.status = "ClosedSL" THEN "StopLoss"
             ELSE "Other"

RealCloseReason(k, p) ==
    LET pos == se.positions[k]
        tr == sell_trigger(RealPosition(k, pos.dex_type, pos.entry_price, pos.opened_at),
                           p, config_store, now)
    IN  IF tr = NoTrigger THEN "None" ELSE tr.kind

\* C28: for a position with the same parameters, the same configuration and
\* the same tick price, the engine with allow_close = true closes the
\* position exactly when the real trader's trigger evaluation gives a plan,
\* and for the same reason.
C28_SimClosesWhenRealWould ==
    \A k \in Keys : \A p \in Prices :
        Comparable(k)
        => SimCloseReason(update_or_execute(se, k, p, NoLiq, TRUE, now), k)
               = RealCloseReason(k, p)

\* paper trading: a position that has reached its hold time below its
\* take-profit and above its stop-loss level
C28_HoldTimeReached ==
    \E k \in Keys :
        /\ sim_mode_flag
        /\ Comparable(k)
        /\ RealCloseReason(k, se.positions[k].current_price) = "MaxHold"
        /\ now - se.positions[k].opened_at = config_store.max_hold_secs

\* the entries of the closed-positions log that belong to pair key k
ArchivedAt(e, k) ==
    {i \in 1..Len(e.closed_positions) : e.closed_positions[i].pair_address = k}

\* C29: every step that takes a position out of the engine's open map (a
\* take, take-all, or a tick's take-profit, stop-loss or max-hold close)
\* appends that position once to the closed-positions log and blocks its key,
\* the log grows by nothing else, and no archived key is in the open map.
C29_FullCloseArchivesOnce ==
    [][/\ \A k \in DOMAIN se.positions \ DOMAIN se'.positions :
             /\ Cardinality(ArchivedAt(se', k)) = Cardinality(ArchivedAt(se, k)) + 1
             /\ k \in se'.do_not_rebuy
       /\ Len(se'.closed_positions)
              = Len(se.closed_positions)
                    + Cardinality(DOMAIN se.positions \ DOMAIN se'.positions)
       /\ SubSeq(se'.closed_positions, 1, Len(se.closed_positions)) = se.closed_positions
       /\ \A k \in DOMAIN se.positions : ArchivedAt(se, k) = {}]_vars

\* C30: the real trader never holds more positions than max_positions, and in
\* paper trading the engine's open positions and pending buys together never
\* number more than max_positions.
C30_PositionLimit ==
    /\ Cardinality(DOMAIN trader.positions) <= config_store.max_positions
    /\ sim_mode_flag
       => Cardinality(DOMAIN se.positions) + Cardinality(DOMAIN se.pending_buys)
              <= config_store.max_positions

\* the gate as stated: tracked PnL below min_pnl_pct and age, in whole
\* seconds, above freshness_secs
GateRejects(m) ==
    /\ m.some
    /\ m.pnl_pct < config_store.min_pnl_pct
    /\ m.age_ms \div 1000 > config_store.freshness_secs

\* C31: a buy that passes every other filter is rejected by the momentum
\* gate exactly when the pair's tracked PnL is below the configured
\* min_pnl_pct and its age exceeds the configured freshness_secs, in the real
\* path and in the simulation path alike.
C31_GateFollowsConfig ==
    [][\A m \in MetricInputs :
          /\ (/\ LoopAdmitWith(TRUE, m)
              /\ config_store.enabled
              /\ admits(trader, loop.key, config_store))
             => (loop'.pc = "recv" <=> GateRejects(m))
          /\ (/\ LoopAutoTradeWith(TRUE, m)
              /\ config_store.enabled
              /\ loop.price > 0
              /\ SimBuy(se, loop.key).ret)
             => (se' = se <=> GateRejects(m))]_vars

Low(liq) == liq # NoLiq /\ liq < LiqGuard

Recovered(liq) == liq # NoLiq /\ liq >= LiqGuard

\* C32: update_liquidity raises the alert only when a position that is not out
\* of liquidity meets a liquidity below the guard; an unacknowledged alert and
\* its out_of_liq flag survive every tick, a recovery included; an acknowledged
\* position does not raise the alert again below the guard, is cleared by a
\* recovery, and raises the alert at the next drop; a tick without a liquidity
\* value changes nothing.  In the engine the alert of a held position rises
\* only on such a tick, and the acknowledgement clears the alert alone.
C32_AlertOncePerCrossing ==
    [][/\ \A k \in DOMAIN se.positions : \A liq \in Liquidities :
             LET p == se.positions[k]
                 q == update_liquidity(p, liq)
             IN  /\ p.needs_liq_ack => p.out_of_liq
                 /\ (q.needs_liq_ack /\ ~p.needs_liq_ack) => (~p.out_of_liq /\ Low(liq))
                 /\ (~p.out_of_liq /\ Low(liq)) => (q.needs_liq_ack /\ q.out_of_liq)
                 /\ p.needs_liq_ack => (q.needs_liq_ack /\ q.out_of_liq)
                 /\ (p.out_of_liq /\ ~p.needs_liq_ack /\ Low(liq))
                    => (q.out_of_liq /\ ~q.needs_liq_ack)
                 /\ (p.out_of_liq /\ ~p.needs_liq_ack /\ Recovered(liq))
                    => (~q.out_of_liq /\ ~q.needs_liq_ack)
                 /\ liq = NoLiq => q = p
       /\ \A k \in DOMAIN se.positions \cap DOMAIN se'.positions :
             /\ (k \notin DOMAIN se.pending_buys
                   /\ se'.positions[k].needs_liq_ack /\ ~se.positions[k].needs_liq_ack)
                => (/\ Receives /\ loop'.key = k /\ Low(loop'.liquidity)
                    /\ ~se.positions[k].out_of_liq)
             /\ (se.positions[k].needs_liq_ack /\ ~se'.positions[k].needs_liq_ack
                   /\ k \notin DOMAIN se.pending_buys)
                => (loop' = loop /\ se'.positions[k].out_of_liq)]_vars

\* an acknowledged position, still out of liquidity, after a tick below the
\* guard
C32_AcknowledgedStillLow ==
    /\ loop.pc = "dispatch"
    /\ Low(loop.liquidity)
    /\ loop.key \in DOMAIN se.positions
    /\ se.positions[loop.key].out_of_liq
    /\ ~se.positions[loop.key].needs_liq_ack

\* ---------------------------------------------------------------------
\* C33: in the real trader every key of the closing set has a position in
\* the store, and every operation of the store applied to any key keeps it
\* so: no reservation outlives its position.
Reserved(t) == t.closing \subseteq DOMAIN t.positions

C33_ClosingHasPosition ==
    /\ Reserved(trader)
    /\ \A k \in Keys :
          /\ Reserved(reserve_close(trader, k).trader)
          /\ Reserved(abort_close(trader, k))
          /\ Reserved(finish_sell(trader, k))
          /\ Reserved(remove_position(trader, k).trader)
          /\ Reserved(block_rebuy(trader, k))
          /\ \A p \in RealPrices :
                /\ Reserved(sell_decision(trader, k, p, config_store, now).trader)
                /\ Reserved(record_buy(trader,
                                       RealPosition(k, detect_source(k), p, now)))
    /\ Reserved(clear_all_closing(trader))

\* a position was removed while its sell was executing: the reservation the
\* sell held went with it
C33_RemovedWhileSelling ==
    /\ loop.pc = "sell_exec"
    /\ loop.key \notin DOMAIN trader.positions
    /\ loop.key \notin trader.closing

\* ---------------------------------------------------------------------
\* C34: when a tick-triggered real sell failed and its reservation was
\* aborted, the mirror close leaves the engine's mirror of the position
\* open: a position the real trader still holds keeps its mirror.
C34_FailedSellKeepsMirror ==
    [][(/\ loop.pc = "sell_mirror"
        /\ loop' = LoopIdle
        /\ ~SellOk(loop.res)
        /\ loop.key \in DOMAIN trader.positions
        /\ loop.key \in DOMAIN se.positions)
       => loop.key \in DOMAIN se'.positions]_vars

\* ---------------------------------------------------------------------
\* C35: in the engine no pair key is in pending_buys and in the open
\* positions at the same time, so an executed pending buy never replaces an
\* open position.
C35_PendingXorOpen ==
    DOMAIN se.pending_buys \cap DOMAIN se.positions = {}

\* ---------------------------------------------------------------------
\* C36: whenever a position is closed (take, take-all, take-profit,
\* stop-loss or max-hold close) the PnL archived for it is the PnL realized
\* by its partial closes plus the PnL on its remaining size.
C36_ArchivedPnlIsTotal ==
    [][\A k \in DOMAIN se.positions \ DOMAIN se'.positions :
          \A i \in ArchivedAt(se', k) \ ArchivedAt(se, k) :
             LET a == se'.closed_positions[i]
             IN  a.pnl_wbnb
                    = FracAdd(a.realized_pnl_wbnb,
                              PnlOn(Frac(a.remaining_amount_wbnb, 1), a.pnl_pct))]_vars

\* ---------------------------------------------- the tasks at the mutexes
\* the tasks that hold lock l (at most one)
Holder(l) ==
    {p \in LockProcs : \E i \in 1..Len(locks[p].held) : locks[p].held[i] = l}

\* the passages a task can set out on
Passages(p) ==
    IF p[1] = "loop"
    THEN IF sim_mode_flag THEN {sim_event_locks} ELSE real_event_locks
    ELSE IF p[1] = "ui"
    THEN ui_locks
    ELSE IF sim_mode_flag THEN {} ELSE results_interactions_real_locks

OthersUnchanged ==
    UNCHANGED <<trader, se, buy_fails, config_store, sim_mode_flag, now, loop, tasks,
                ui, allowance, events>>

\* an event is received, a click is handled, a manual-action task is spawned
LockStart(p) ==
    /\ locks[p].prog = << >>
    /\ \E pr \in Passages(p) : locks' = [locks EXCEPT ![p].prog = pr]
    /\ OthersUnchanged

\* lock().await returns once nobody holds the mutex
LockAcquire(p) ==
    /\ locks[p].prog # << >>
    /\ Head(locks[p].prog)[1] = "acq"
    /\ Holder(Head(locks[p].prog)[2]) = {}
    /\ locks' = [locks EXCEPT ![p].prog = Tail(@),
                              ![p].held = Append(@, Head(locks[p].prog)[2])]
    /\ OthersUnchanged

\* the guard is dropped
LockRelease(p) ==
    /\ locks[p].prog # << >>
    /\ Head(locks[p].prog)[1] = "rel"
    /\ locks' = [locks EXCEPT
                   ![p].prog = Tail(@),
                   ![p].held = SelectSeq(@, LAMBDA l : l # Head(locks[p].prog)[2])]
    /\ OthersUnchanged

Start == \E p \in LockProcs : LockStart(p)

Acquire == \E p \in LockProcs : LockAcquire(p)

Release == \E p \in LockProcs : LockRelease(p)

InitLocks == InitWith(LimitConfigs, BOOLEAN)

NextLocks ==
    \/ Start
    \/ Acquire
    \/ Release

SpecLocks == InitLocks /\ [][NextLocks]_vars

\* the mutex task p is suspended on
Waits(p) ==
    IF locks[p].prog # << >> /\ Head(locks[p].prog)[1] = "acq"
       /\ Holder(Head(locks[p].prog)[2]) # {}
    THEN {Head(locks[p].prog)[2]}
    ELSE {}

WaitsFor(p, q) == \E l \in Waits(p) : q \in Holder(l)

\* C37: no interleaving of the event loop, the manual-action tasks and the UI
\* task deadlocks on the trader's and the engine's locks: a task that holds
\* both took the trader's first, no task asks for the trader's lock while it
\* holds the engine's, no task waits for a lock it holds, and no two tasks
\* wait for each other.
C37_NoLockDeadlock ==
    /\ \A p \in LockProcs :
          /\ locks[p].held \in {<< >>, <<"trader">>, <<"se">>, <<"trader", "se">>}
          /\ ("se" \in {locks[p].held[i] : i \in 1..Len(locks[p].held)}
                 /\ locks[p].prog # << >>)
                => Head(locks[p].prog) # Acq("trader")
          /\ ~WaitsFor(p, p)
    /\ \A p, q \in LockProcs : ~(WaitsFor(p, q) /\ WaitsFor(q, p))
    /\ \A l \in {"trader", "se"} : Cardinality(Holder(l)) <= 1

\* a task holds the trader's lock and the engine's together while another
\* task is suspended on one of them
C37_BothHeldWhileWaited ==
    \E p, q \in LockProcs :
        /\ p # q
        /\ locks[p].held = <<"trader", "se">>
        /\ WaitsFor(q, p)

\* ------------------------------------- the Take All / Ok button, both modes
\* ticks carry liquidity values below and above the guard; the operator
\* clicks Take All (shown as Ok while an alert is pending) in either mode
AckButtons == {"take_all"}

AckLiquidities == {1, 10}

InitAck == InitWith(LimitConfigs, BOOLEAN)

OkClick ==
    \/ UiTakeAll
    \/ Spawn(AckButtons)

TakeAllTask ==
    \/ TaskAck
    \/ TaskClearAll
    \/ TaskReserve
    \/ TaskCommit
    \/ TaskMirror

NextAck ==
    \/ LoopRecv(RealKeys, RealPrices, AckLiquidities)
    \/ LoopAutoTrade
    \/ LoopReal
    \/ OkClick
    \/ TakeAllTask

\* the operator keeps clicking the button, and a spawned task runs on
SpecAck ==
    /\ InitAck /\ [][NextAck]_vars
    /\ WF_vars(OkClick)
    /\ WF_vars(TakeAllTask)

\* C38: in simulation mode and in real mode alike, a pending liquidity alert
\* is eventually acknowledged (or its position leaves the engine) once the
\* operator clicks the button that shows Ok: the manual actions are not
\* refused forever.
C38_AlertEventuallyAcknowledged ==
    \A k \in RealKeys : AlertPending(k) ~> ~AlertPending(k)

\* --------------------------------------------- ticks without a price
\* a session whose ticks may carry the price 0
ZeroPrices == {0, 100, 115}

NextZero ==
    \/ LoopRecv(AutoKeys, ZeroPrices, {NoLiq})
    \/ LoopAutoTrade
    \/ LoopReal

SpecZero == InitAuto /\ [][NextZero]_vars

\* C39: every open position of the engine has an entry price above 0,
\* whatever the price of the tick that executed its pending buy.
C39_EntryPricePositive ==
    \A k \in DOMAIN se.positions : se.positions[k].entry_price > 0
====
